---------------------------- MODULE Spec2Model ----------------------------
(***************************************************************************)
(* Model of the UAVLogViewer backend: the analysis engine                  *)
(* (src/backend/tools.py, src/backend/data_parser.py), the HTTP server     *)
(* (src/backend/app.py) and the agent workflow                             *)
(* (src/backend/agent_setup.py).                                           *)
(*                                                                         *)
(* A LogTable is either [list |-> rows], a sequence of rows, each row a    *)
(* function from column names to integers (the JSON list-of-dicts form),   *)
(* or [dict |-> columns], a function from column names to equally long     *)
(* sequences (the dict-of-lists form).  DataFrame(t) is the sequence of    *)
(* rows pandas builds from either; its column set is the union of the      *)
(* rows' keys.  A FlightDataset is a function from table names to tables;  *)
(* the module global SHARED_FLIGHT_DATA holds None or a dataset.           *)
(*                                                                         *)
(* Units of the cell values: Alt in metres, Temp in tenths of a degree     *)
(* Celsius, time fields in raw ticks.                                      *)
(*                                                                         *)
(* Time: the code divides raw ticks by the divisor of the chosen time      *)
(* field and works in float seconds.  The model keeps normalized time as   *)
(* an exact integer number of microseconds (raw * (1000000 / divisor)).    *)
(* Tool results are records whose "kind" names the message returned.       *)
(***************************************************************************)
EXTENDS Integers, Sequences, FiniteSets, TLC

VARIABLES SHARED_FLIGHT_DATA, result, requests, agent_state, running

vars == <<SHARED_FLIGHT_DATA, result, requests, agent_state, running>>

----------------------------------------------------------------------------
(* Generic helpers *)

NoneData == [isNone |-> TRUE]

SomeData(tables) == [isNone |-> FALSE, tables |-> tables]

\* variant: only None is treated as missing
Falsy_IsNone(fd) == fd.isNone

\* Python truthiness of the value returned by get_flight_data(): None and {}
\* are falsy.
Falsy(fd) == fd.isNone \/ DOMAIN fd.tables = {}

HasTable(fd, name) == name \in DOMAIN fd.tables

IsList(t) == "list" \in DOMAIN t

IsDict(t) == "dict" \in DOMAIN t

ListTable(rows) == [list |-> rows]

\* Python truthiness of a table: [] and {} are falsy
EmptyTable(t) == IF IsList(t) THEN t.list = <<>> ELSE DOMAIN t.dict = {}

\* the number of rows zip(*columns) yields: the length of the shortest column
RECURSIVE MinLen(_, _)
MinLen(columns, keys) ==
    IF keys = {} THEN 0
    ELSE LET k == CHOOSE x \in keys : TRUE
         IN  IF keys = {k} THEN Len(columns[k])
             ELSE LET m == MinLen(columns, keys \ {k})
                  IN  IF Len(columns[k]) < m THEN Len(columns[k]) ELSE m

\* [dict(zip(keys, vals)) for vals in zip(*[mode_log[k] for k in keys])]
ZipRecords(columns) ==
    [i \in 1..MinLen(columns, DOMAIN columns) |->
        [k \in DOMAIN columns |-> columns[k][i]]]

\* pd.DataFrame(table), for a list of dicts or for a dict of equally long lists
DataFrame(t) == IF IsList(t) THEN t.list ELSE ZipRecords(t.dict)

\* pd.DataFrame(list_of_dicts).columns: union of the rows' keys.
Columns(tbl) == UNION {DOMAIN tbl[i] : i \in 1..Len(tbl)}

RECURSIVE SeqSum(_)
SeqSum(s) == IF s = <<>> THEN 0 ELSE Head(s) + SeqSum(Tail(s))

RECURSIVE FilterIdx(_, _, _)
\* indices i (ascending, from i upward) for which keep[i] holds
FilterIdx(keep, i, n) ==
    IF i > n THEN <<>>
    ELSE IF keep[i] THEN <<i>> \o FilterIdx(keep, i + 1, n)
    ELSE FilterIdx(keep, i + 1, n)

\* df[mask]: the rows whose entry of the boolean mask is true
SelectRows(tbl, mask) ==
    LET idx == FilterIdx(mask, 1, Len(tbl))
    IN  [k \in 1..Len(idx) |-> tbl[idx[k]]]

\* df[name] = values, row by row
WithColumn(tbl, name, values) ==
    [i \in 1..Len(tbl) |->
        [c \in DOMAIN tbl[i] \cup {name} |-> IF c = name THEN values[i] ELSE tbl[i][c]]]

RECURSIVE InsertSorted(_, _, _)
InsertSorted(row, sorted, col) ==
    IF sorted = <<>> THEN <<row>>
    ELSE IF row[col] < Head(sorted)[col]
         THEN <<row>> \o sorted
         ELSE <<Head(sorted)>> \o InsertSorted(row, Tail(sorted), col)

RECURSIVE SortValues(_, _)
\* df.sort_values(by=col).reset_index(drop=True); ties keep their input order
\* (numpy sorts partitions of at most 16 elements by insertion).
SortValues(tbl, col) ==
    IF tbl = <<>> THEN <<>>
    ELSE InsertSorted(tbl[Len(tbl)], SortValues(SubSeq(tbl, 1, Len(tbl) - 1), col), col)

----------------------------------------------------------------------------
(* Time Normalizer *)

UsPerSecond == 1000000

\* dict literal, in insertion order
TIME_COLUMNS_DIVISORS ==
    << <<"TimeUS", 1000000>>, <<"time_boot_ms", 1000>>, <<"TimeMS", 1000>> >>

NoTimeCol == "None"

RECURSIVE FirstPresent(_, _)
FirstPresent(pairs, cols) ==
    IF pairs = <<>> THEN [col |-> NoTimeCol, divisor |-> 1]
    ELSE IF Head(pairs)[1] \in cols
         THEN [col |-> Head(pairs)[1], divisor |-> Head(pairs)[2]]
         ELSE FirstPresent(Tail(pairs), cols)

_get_time_column_and_divisor(cols) == FirstPresent(TIME_COLUMNS_DIVISORS, cols)

\* raw / divisor, as microseconds
ToSeconds(raw, divisor) == raw * (UsPerSecond \div divisor)

\* variant: the seconds rounded to the nearest second instead of floored
_format_time_string_Rounded(total_us) ==
    [mm  |-> total_us \div (60 * UsPerSecond),
     ss  |-> ((total_us % (60 * UsPerSecond)) + 500000) \div UsPerSecond,
     raw |-> (total_us + 5000) \div 10000]


\* _format_time_string: f"{int(minutes):02d}:{int(seconds_remainder):02d}
\* ({total_seconds:.2f} seconds raw)"; minutes and seconds are floored, the
\* raw value is rounded to hundredths (here: to the nearest centisecond).
_format_time_string(total_us) ==
    [mm  |-> total_us \div (60 * UsPerSecond),
     ss  |-> (total_us % (60 * UsPerSecond)) \div UsPerSecond,
     raw |-> (total_us + 5000) \div 10000]

----------------------------------------------------------------------------
(* Exceptions: a tool body evaluates to a result record or to Raise(e);    *)
(* the tool's except clauses turn a raised exception into a result.        *)

Raise(e) == [kind |-> "raise", exc |-> e]

Raised(r) == r.kind = "raise"

\* except KeyError as ke: ... / except Exception as e: ...
TryExcept(body, keyErrorKind, exceptionKind) ==
    IF ~Raised(body) THEN body
    ELSE IF body.exc = "KeyError" THEN [kind |-> keyErrorKind]
    ELSE [kind |-> exceptionKind]

FlightDataNotAvailable == [kind |-> "Flight data is not available"]

----------------------------------------------------------------------------
(* get_highest_altitude *)

RECURSIVE IdxMax(_, _, _, _)
\* Series.idxmax(): label of the first occurrence of the maximum
IdxMax(tbl, col, i, best) ==
    IF i > Len(tbl) THEN best
    ELSE IF tbl[i][col] > tbl[best][col] THEN IdxMax(tbl, col, i + 1, i)
    ELSE IdxMax(tbl, col, i + 1, best)

get_highest_altitude_body(fd) ==
    LET baro_df  == DataFrame(fd.tables["BARO"])
        cols     == Columns(baro_df)
        tc       == _get_time_column_and_divisor(cols)
        max_row  == baro_df[IdxMax(baro_df, "Alt", 1, 1)]
    IN  IF "Alt" \notin cols THEN [kind |-> "BARO log does not contain an 'Alt'"]
        ELSE IF tc.col # NoTimeCol
             THEN [kind |-> "The highest altitude reached was",
                   max_altitude |-> max_row["Alt"],
                   time |-> ToSeconds(max_row[tc.col], tc.divisor)]
             ELSE [kind |-> "The highest altitude reached was (timestamp not available)",
                   max_altitude |-> max_row["Alt"]]

get_highest_altitude(fd) ==
    IF Falsy(fd) THEN FlightDataNotAvailable
    ELSE IF ~HasTable(fd, "BARO") THEN [kind |-> "BARO log data not found"]
    ELSE TryExcept(get_highest_altitude_body(fd),
                   "Error: Missing expected column in BARO data",
                   "An unexpected error occurred while processing BARO data")

----------------------------------------------------------------------------
(* find_first_gps_loss *)

\* variant: one group holding every zero-satellite row, consecutive or not
RunLengths_Total(flags, i, cur) ==
    << Cardinality({k \in i..Len(flags) : flags[k]}) + cur >>

RECURSIVE RunLengths(_, _, _)
\* groups = (zero_sats != zero_sats.shift()).cumsum();
\* gps_df[zero_sats].groupby(groups).size(): the lengths of the maximal runs
\* of consecutive rows (in DataFrame order) with zero_sats true.
RunLengths(flags, i, cur) ==
    IF i > Len(flags) THEN (IF cur > 0 THEN <<cur>> ELSE <<>>)
    ELSE IF flags[i] THEN RunLengths(flags, i + 1, cur + 1)
    ELSE (IF cur > 0 THEN <<cur>> ELSE <<>>) \o RunLengths(flags, i + 1, 0)

\* "for 5 or more consecutive data points"
ZeroSatsMinRun == 5

NSatsThreshold == 6

FixTypeThreshold == 2

find_first_gps_loss_body(fd) ==
    LET gps_df      == DataFrame(fd.tables["GPS"])
        cols        == Columns(gps_df)
        has_nsats   == "NSats" \in cols
        has_fixtype == "FixType" \in cols
        tc          == _get_time_column_and_divisor(cols)
        combined(row) == \/ (has_nsats /\ row["NSats"] < NSatsThreshold)
                         \/ (has_fixtype /\ row["FixType"] < FixTypeThreshold)
        degraded_events_df == SelectRows(gps_df, [n_ \in DOMAIN gps_df |-> combined(gps_df[n_])])
        first_event == degraded_events_df[1]
        reasons     == (IF has_nsats /\ first_event["NSats"] < NSatsThreshold
                        THEN {"NSats"} ELSE {})
                       \cup
                       (IF has_fixtype /\ first_event["FixType"] < FixTypeThreshold
                        THEN {"FixType"} ELSE {})
        zero_sats   == [i \in 1..Len(gps_df) |-> gps_df[i]["NSats"] = 0]
        sizes       == RunLengths(zero_sats, 1, 0)
        total_zero  == Len(FilterIdx(zero_sats, 1, Len(gps_df)))
        warning     == /\ has_nsats
                       /\ \E k \in 1..Len(sizes) : sizes[k] >= ZeroSatsMinRun
                       /\ total_zero > 0
    IN  IF tc.col = NoTimeCol
        THEN [kind |-> "No valid timestamp column found in GPS data"]
        ELSE IF ~has_nsats /\ ~has_fixtype
        THEN [kind |-> "Neither 'NSats' nor 'FixType' fields found in GPS data"]
        ELSE IF degraded_events_df = <<>>
        THEN [kind |-> "GPS signal remained strong throughout the flight"]
        ELSE [kind    |-> "GPS signal degradation was first observed",
              time    |-> _format_time_string(ToSeconds(first_event[tc.col], tc.divisor)),
              reasons |-> reasons,
              warning |-> warning,
              total_zero_sat_time_points |-> IF warning THEN total_zero ELSE 0]

find_first_gps_loss(fd) ==
    IF Falsy(fd) THEN FlightDataNotAvailable
    ELSE IF ~HasTable(fd, "GPS") THEN [kind |-> "No 'GPS' log data found"]
    ELSE TryExcept(find_first_gps_loss_body(fd),
                   "Error: Missing expected column in GPS data",
                   "An unexpected error occurred while processing GPS data for first loss")

----------------------------------------------------------------------------
(* get_gps_degradation_duration *)
(* Durations are kept doubled (dur2 = 2 * seconds, in microseconds) so     *)
(* that the halved gap of a single-row segment stays an integer.           *)

\* variant: the inner loop without the consecutive-index test
SegmentEnd_NoIndexTest(degraded_indices, j) == Len(degraded_indices)

RECURSIVE SegmentEnd(_, _)
\* while j + 1 < len(degraded_indices) and
\*       degraded_indices[j+1] == degraded_indices[j] + 1: j += 1
SegmentEnd(degraded_indices, j) ==
    IF j + 1 <= Len(degraded_indices) /\ degraded_indices[j + 1] = degraded_indices[j] + 1
    THEN SegmentEnd(degraded_indices, j + 1)
    ELSE j

\* variant: a single interior row takes the whole gap to the next sample
SegmentDuration2_NextGap(t, n, start_index, end_index) ==
    IF start_index = end_index
    THEN IF end_index < n
         THEN 2 * (t[end_index + 1] - t[end_index])
         ELSE IF start_index > 1
         THEN 2 * (t[start_index] - t[start_index - 1])
         ELSE 0
    ELSE 2 * (t[end_index] - t[start_index])

\* the interval added for the segment start_index..end_index (1-based rows
\* of the sorted frame of n rows), doubled
SegmentDuration2(t, n, start_index, end_index) ==
    IF start_index = end_index
    THEN IF end_index < n /\ start_index > 1
         THEN t[end_index + 1] - t[start_index - 1]
         ELSE IF end_index < n
         THEN 2 * (t[end_index + 1] - t[end_index])
         ELSE IF start_index > 1
         THEN 2 * (t[start_index] - t[start_index - 1])
         ELSE 0
    ELSE 2 * (t[end_index] - t[start_index])

RECURSIVE DegradedSegments(_, _, _, _)
\* the outer while loop: one entry per value of i it visits
DegradedSegments(t, n, degraded_indices, i) ==
    IF i > Len(degraded_indices) THEN <<>>
    ELSE LET j           == SegmentEnd(degraded_indices, i)
             start_index == degraded_indices[i]
             end_index   == degraded_indices[j]
         IN  << [start_index |-> start_index,
                 end_index   |-> end_index,
                 dur2        |-> SegmentDuration2(t, n, start_index, end_index)] >>
             \o DegradedSegments(t, n, degraded_indices, j + 1)

\* variant: the predicate of find_first_gps_loss
DurationDegraded_OrFixType(row) ==
    \/ row["NSats"] < NSatsThreshold
    \/ ("FixType" \in DOMAIN row /\ row["FixType"] < FixTypeThreshold)

DurationDegraded(row) == row["NSats"] < NSatsThreshold

get_gps_degradation_duration_body(fd) ==
    LET raw_df   == DataFrame(fd.tables["GPS"])
        cols     == Columns(raw_df)
        tc       == _get_time_column_and_divisor(cols)
        TimeSecondsOf(row) == ToSeconds(row[tc.col], tc.divisor)
        with_sec == WithColumn(raw_df, "time_seconds", [n_ \in DOMAIN raw_df |-> TimeSecondsOf(raw_df[n_])])
        gps_df   == SortValues(with_sec, "time_seconds")
        n        == Len(gps_df)
        t        == [i \in 1..n |-> gps_df[i]["time_seconds"]]
        degraded_indices ==
            FilterIdx([i \in 1..n |-> DurationDegraded(gps_df[i])], 1, n)
        segments == DegradedSegments(t, n, degraded_indices, 1)
        total2   == SeqSum([k \in 1..Len(segments) |-> segments[k].dur2])
    IN  IF "NSats" \notin cols
        THEN [kind |-> "GPS satellite count ('NSats') not available in the log"]
        ELSE IF tc.col = NoTimeCol
        THEN [kind |-> "No valid timestamp column found in GPS data"]
        ELSE IF degraded_indices = <<>>
        THEN [kind |-> "GPS signal remained strong throughout the flight (NSats)"]
        ELSE [kind     |-> "GPS signal was degraded (NSats < 6) for approximately",
              duration |-> _format_time_string(total2 \div 2),
              \* what the loop computed, kept for inspection
              degraded_segments_duration2 |-> total2,
              segments |-> segments,
              degraded_indices |-> degraded_indices,
              time_seconds |-> t]

get_gps_degradation_duration(fd) ==
    IF Falsy(fd) THEN FlightDataNotAvailable
    ELSE IF ~HasTable(fd, "GPS") THEN [kind |-> "No 'GPS' log data found"]
    ELSE TryExcept(get_gps_degradation_duration_body(fd),
                   "Error: Missing expected column in GPS data",
                   "An unexpected error occurred while calculating GPS degradation duration")

----------------------------------------------------------------------------
(* get_max_battery_temperature *)

RECURSIVE SeqMax(_)
SeqMax(s) ==
    IF Len(s) = 1 THEN s[1]
    ELSE LET m == SeqMax(Tail(s)) IN IF s[1] >= m THEN s[1] ELSE m

RECURSIVE SeqMin(_)
SeqMin(s) ==
    IF Len(s) = 1 THEN s[1]
    ELSE LET m == SeqMin(Tail(s)) IN IF s[1] <= m THEN s[1] ELSE m

Column(tbl, col) == [i \in 1..Len(tbl) |-> tbl[i][col]]

\* bat_df[bat_df['Temp'] > 0]
ValidTemp(row) == row["Temp"] > 0

BatLogMissing(fd) == ~HasTable(fd, "BAT") \/ EmptyTable(fd.tables["BAT"])

get_max_battery_temperature_body(fd) ==
    LET bat_df == DataFrame(fd.tables["BAT"])
        valid_temps_df == SelectRows(bat_df, [n_ \in DOMAIN bat_df |-> ValidTemp(bat_df[n_])])
    IN  IF "Temp" \notin Columns(bat_df)
        THEN [kind |-> "Battery temperature data ('Temp' field) is not available"]
        ELSE IF valid_temps_df = <<>>
        THEN [kind |-> "Battery temperature values are all zero or invalid"]
        ELSE [kind |-> "The maximum valid battery temperature recorded was",
              max_temp |-> SeqMax(Column(valid_temps_df, "Temp"))]

get_max_battery_temperature(fd) ==
    IF Falsy(fd) THEN FlightDataNotAvailable
    ELSE IF BatLogMissing(fd) THEN [kind |-> "No 'BAT' (battery) log data found"]
    ELSE TryExcept(get_max_battery_temperature_body(fd),
                   "Error: Missing expected column in BAT data",
                   "An unexpected error occurred while processing battery temperature data")

----------------------------------------------------------------------------
(* get_total_flight_time *)

\* variant: without the "if not time_col" return, gps_df[None] is a KeyError
get_total_flight_time_body_Unchecked(fd) ==
    LET gps_df == DataFrame(fd.tables["GPS"])
        tc     == _get_time_column_and_divisor(Columns(gps_df))
        start_raw == SeqMin(Column(gps_df, tc.col))
        end_raw   == SeqMax(Column(gps_df, tc.col))
        duration_seconds == ToSeconds(end_raw - start_raw, tc.divisor)
    IN  IF tc.col = NoTimeCol
        THEN Raise("KeyError")
        ELSE [kind |-> "The total flight time was",
              total_minutes |-> duration_seconds \div (60 * UsPerSecond),
              total_seconds_remainder |->
                  (duration_seconds % (60 * UsPerSecond)) \div UsPerSecond,
              started  |-> _format_time_string(ToSeconds(start_raw, tc.divisor)),
              ended    |-> _format_time_string(ToSeconds(end_raw, tc.divisor)),
              time_col |-> tc.col]

get_total_flight_time_body(fd) ==
    LET gps_df == DataFrame(fd.tables["GPS"])
        tc     == _get_time_column_and_divisor(Columns(gps_df))
        start_raw == SeqMin(Column(gps_df, tc.col))
        end_raw   == SeqMax(Column(gps_df, tc.col))
        duration_seconds == ToSeconds(end_raw - start_raw, tc.divisor)
    IN  IF tc.col = NoTimeCol
        THEN [kind |-> "No suitable timestamp column found in GPS data"]
        ELSE [kind |-> "The total flight time was",
              total_minutes |-> duration_seconds \div (60 * UsPerSecond),
              total_seconds_remainder |->
                  (duration_seconds % (60 * UsPerSecond)) \div UsPerSecond,
              started  |-> _format_time_string(ToSeconds(start_raw, tc.divisor)),
              ended    |-> _format_time_string(ToSeconds(end_raw, tc.divisor)),
              time_col |-> tc.col]

get_total_flight_time(fd) ==
    IF Falsy(fd) THEN FlightDataNotAvailable
    ELSE IF ~HasTable(fd, "GPS") \/ EmptyTable(fd.tables["GPS"])
    THEN [kind |-> "No 'GPS' data found in the flight log"]
    ELSE TryExcept(get_total_flight_time_body(fd),
                   "Error: Missing expected column in GPS data",
                   "An unexpected error occurred while processing flight time data")

----------------------------------------------------------------------------
(* check_rc_signal_loss *)

RC_FAILSAFE_EV_ID == 10

RC_FAILSAFE_INFERRED_MODES == {5, 6, 9, 11}

IsRcFailsafeEvent(row) == row["Id"] = RC_FAILSAFE_EV_ID

IsSuspectedFailsafeMode(row) == row["Mode"] \in RC_FAILSAFE_INFERRED_MODES

check_rc_signal_loss_ev(fd) ==
    LET ev_df == DataFrame(fd.tables["EV"])
        rc_failsafe_events == SelectRows(ev_df, [n_ \in DOMAIN ev_df |-> IsRcFailsafeEvent(ev_df[n_])])
        \* the filtered frame keeps the columns of ev_df
        tc    == _get_time_column_and_divisor(Columns(ev_df))
    IN  IF "Id" \notin Columns(ev_df)
        THEN [kind |-> "The 'EV' log is present, but lacks the 'Id' field"]
        ELSE IF rc_failsafe_events # <<>>
        THEN IF tc.col # NoTimeCol
             THEN [kind |-> "RC signal loss detected! The first RC Failsafe (EV.Id = 10) occurred at",
                   time |-> _format_time_string(
                                ToSeconds(rc_failsafe_events[1][tc.col], tc.divisor))]
             ELSE [kind |-> "RC signal loss detected (EV.Id = 10), but no timestamp could be accurately determined"]
        ELSE [kind |-> "'EV' log is present, and no RC signal loss (EV.Id = 10) was detected"]

check_rc_signal_loss_mode(fd) ==
    LET mode_df == DataFrame(fd.tables["MODE"])
        suspected_failsafe_modes == SelectRows(mode_df, [n_ \in DOMAIN mode_df |-> IsSuspectedFailsafeMode(mode_df[n_])])
        tc      == _get_time_column_and_divisor(Columns(mode_df))
    IN  IF "Mode" \notin Columns(mode_df)
        THEN [kind |-> "Fallback to MODE log failed: no 'Mode' column present"]
        ELSE IF suspected_failsafe_modes # <<>>
        THEN IF tc.col # NoTimeCol
             THEN [kind |-> "No 'EV' log found. However, based on 'MODE' changes an RC failsafe is suspected around; this is an inference",
                   time |-> _format_time_string(
                                ToSeconds(suspected_failsafe_modes[1][tc.col], tc.divisor))]
             ELSE [kind |-> "No 'EV' log found, and possible RC failsafe inferred from mode change, but no timestamp could be accurately determined"]
        ELSE [kind |-> "No 'EV' log found, and no common RC failsafe modes were detected; RC signal loss is unlikely"]

check_rc_signal_loss(fd) ==
    IF Falsy(fd) THEN FlightDataNotAvailable
    ELSE IF HasTable(fd, "EV") /\ ~EmptyTable(fd.tables["EV"])
    THEN TryExcept(check_rc_signal_loss_ev(fd),
                   "Error: Missing expected column in EV data",
                   "An unexpected error occurred while processing 'EV' logs for RC signal loss")
    ELSE IF HasTable(fd, "MODE") /\ ~EmptyTable(fd.tables["MODE"])
    THEN TryExcept(check_rc_signal_loss_mode(fd),
                   "Error: Missing expected column in MODE data",
                   "An unexpected error occurred while processing 'MODE' logs for RC signal loss inference")
    ELSE [kind |-> "Neither 'EV' nor 'MODE' logs are available"]

----------------------------------------------------------------------------
(* detect_unusual_altitude_drops(threshold_m, window_s) *)

RECURSIVE IdxMin(_, _, _, _)
\* Series.idxmin(): label of the first occurrence of the minimum
IdxMin(tbl, col, i, best) ==
    IF i > Len(tbl) THEN best
    ELSE IF tbl[i][col] < tbl[best][col] THEN IdxMin(tbl, col, i + 1, i)
    ELSE IdxMin(tbl, col, i + 1, best)

\* variant: the look-ahead set without the upper end of the window
PotentialDrops_Unbounded(df, i, window_s) ==
    LET current_time == df[i]["TimeSec"]
        current_alt  == df[i]["Alt"]
        Later(row) == /\ row["TimeSec"] > current_time
                      /\ row["Alt"] < current_alt
    IN  SelectRows(df, [n_ \in DOMAIN df |-> Later(df[n_])])

\* the look-ahead set of anchor row i
PotentialDrops(df, i, window_s) ==
    LET current_time == df[i]["TimeSec"]
        current_alt  == df[i]["Alt"]
        InWindow(row) == /\ row["TimeSec"] > current_time
                         /\ row["TimeSec"] <= current_time + window_s * UsPerSecond
                         /\ row["Alt"] < current_alt
    IN  SelectRows(df, [n_ \in DOMAIN df |-> InWindow(df[n_])])

\* variant: exclusive comparison
DropReported_Exclusive(delta_alt, threshold_m) == delta_alt > threshold_m

DropReported(delta_alt, threshold_m) == delta_alt >= threshold_m

RECURSIVE DropsFound(_, _, _, _)
\* the for loop over range(len(df)), from row i on
DropsFound(df, i, threshold_m, window_s) ==
    IF i > Len(df) THEN <<>>
    ELSE LET potential_drops == PotentialDrops(df, i, window_s)
             deepest   == potential_drops[IdxMin(potential_drops, "Alt", 1, 1)]
             delta_alt == df[i]["Alt"] - deepest["Alt"]
             delta_t   == deepest["TimeSec"] - df[i]["TimeSec"]
             entry     == IF potential_drops # <<>> /\ DropReported(delta_alt, threshold_m)
                          THEN << [anchor    |-> i,
                                   delta_alt |-> delta_alt,
                                   delta_t   |-> delta_t,
                                   start     |-> _format_time_string(df[i]["TimeSec"])] >>
                          ELSE <<>>
         IN  entry \o DropsFound(df, i + 1, threshold_m, window_s)

detect_unusual_altitude_drops_body(fd, threshold_m, window_s) ==
    LET raw_df == DataFrame(fd.tables["BARO"])
        tc     == _get_time_column_and_divisor(Columns(raw_df))
        TimeSecOf(row) == ToSeconds(row[tc.col], tc.divisor)
        df     == SortValues(WithColumn(raw_df, "TimeSec", [n_ \in DOMAIN raw_df |-> TimeSecOf(raw_df[n_])]), "TimeSec")
        drops_found == DropsFound(df, 1, threshold_m, window_s)
    IN  IF "Alt" \notin Columns(raw_df)
        THEN [kind |-> "Altitude data ('Alt' field) not found in BARO log"]
        ELSE IF tc.col = NoTimeCol
        THEN [kind |-> "No valid timestamp column found in BARO log"]
        ELSE IF drops_found # <<>>
        THEN [kind |-> "Unusual altitude drops detected", drops |-> drops_found]
        ELSE [kind |-> "No unusual altitude drops were detected"]

detect_unusual_altitude_drops(fd, threshold_m, window_s) ==
    IF Falsy(fd) THEN FlightDataNotAvailable
    ELSE IF ~HasTable(fd, "BARO") \/ EmptyTable(fd.tables["BARO"])
    THEN [kind |-> "BARO log data not found"]
    ELSE TryExcept(detect_unusual_altitude_drops_body(fd, threshold_m, window_s),
                   "Error: Missing expected column in BARO data",
                   "An unexpected error occurred while analyzing altitude data")

----------------------------------------------------------------------------
(* analyze_raw_telemetry *)

\* tolist()[:200]
SnapshotLimit == 200

Take(seq, n) == IF Len(seq) <= n THEN seq ELSE SubSeq(seq, 1, n)

Present(fd, name) == HasTable(fd, name) /\ ~EmptyTable(fd.tables[name])

analyze_raw_telemetry_body(fd) ==
    LET baro_df == DataFrame(fd.tables["BARO"])
        gps_df  == DataFrame(fd.tables["GPS"])
        bat_df  == DataFrame(fd.tables["BAT"])
        rcin_df == DataFrame(fd.tables["RCIN"])
        has_alt  == Present(fd, "BARO") /\ "Alt" \in Columns(baro_df)
        has_gps  == Present(fd, "GPS") /\ {"NSats", "HDop"} \subseteq Columns(gps_df)
        has_volt == Present(fd, "BAT") /\ "Volt" \in Columns(bat_df)
        has_temp == Present(fd, "BAT") /\ "Temp" \in Columns(bat_df)
        has_rc   == Present(fd, "RCIN") /\ "C3" \in Columns(rcin_df)
        keys == (IF has_alt THEN {"altitude_m"} ELSE {})
                \cup (IF has_gps THEN {"gps_quality"} ELSE {})
                \cup (IF has_volt \/ has_temp THEN {"battery"} ELSE {})
                \cup (IF has_rc THEN {"rc_throttle_input"} ELSE {})
        telemetry_summary ==
            [k \in keys |->
                CASE k = "altitude_m" -> Take(Column(baro_df, "Alt"), SnapshotLimit)
                  [] k = "gps_quality" ->
                        [num_satellites |-> Take(Column(gps_df, "NSats"), SnapshotLimit),
                         hdop |-> Take(Column(gps_df, "HDop"), SnapshotLimit)]
                  [] k = "battery" ->
                        [b \in (IF has_volt THEN {"voltage_v"} ELSE {})
                               \cup (IF has_temp THEN {"temperature_c"} ELSE {}) |->
                            IF b = "voltage_v"
                            THEN Take(Column(bat_df, "Volt"), SnapshotLimit)
                            ELSE Take(Column(SelectRows(bat_df, [n_ \in DOMAIN bat_df |-> ValidTemp(bat_df[n_])]), "Temp"),
                                      SnapshotLimit)]
                  [] OTHER -> Take(Column(rcin_df, "C3"), SnapshotLimit)]
    IN  IF keys = {}
        THEN [kind |-> "No relevant telemetry data (BARO, GPS, BAT, RCIN) found"]
        ELSE [kind |-> "Here is a summary of key telemetry data points",
              telemetry_summary |-> telemetry_summary]

analyze_raw_telemetry(fd) ==
    IF Falsy(fd) THEN [kind |-> "No flight data loaded. Cannot summarize telemetry"]
    ELSE TryExcept(analyze_raw_telemetry_body(fd),
                   "Error: Missing expected column in telemetry data",
                   "An unexpected error occurred while summarizing telemetry data")

----------------------------------------------------------------------------
(* check_battery_temp_stability (Temp in tenths of a degree) *)

\* temp_range < 1.5, in tenths
RangeStable(temps) == SeqMax(temps) - SeqMin(temps) < 15

\* temp_std < 0.75 with the sample standard deviation (ddof = 1):
\* variance = (n * sum(x^2) - sum(x)^2) / (n * (n - 1)) < 0.5625 = 9/16,
\* that is 900/16 in squared tenths.
\* One reading gives NaN, and NaN < 0.75 is False.
StdStable(temps) ==
    LET n  == Len(temps)
        s1 == SeqSum(temps)
        s2 == SeqSum([i \in 1..n |-> temps[i] * temps[i]])
    IN  /\ n > 1
        /\ 16 * (n * s2 - s1 * s1) < 900 * n * (n - 1)

check_battery_temp_stability_body(fd) ==
    LET bat_df == DataFrame(fd.tables["BAT"])
        valid_temps == Column(SelectRows(bat_df, [n_ \in DOMAIN bat_df |-> ValidTemp(bat_df[n_])]), "Temp")
    IN  IF "Temp" \notin Columns(bat_df)
        THEN [kind |-> "Battery temperature data ('Temp' field) is not available"]
        ELSE IF valid_temps = <<>>
        THEN [kind |-> "All battery temperature values are zero or invalid"]
        ELSE IF RangeStable(valid_temps) /\ StdStable(valid_temps)
        THEN [kind |-> "The battery temperature remained relatively constant",
              temp_range |-> SeqMax(valid_temps) - SeqMin(valid_temps)]
        ELSE [kind |-> "The battery temperature fluctuated",
              min |-> SeqMin(valid_temps), max |-> SeqMax(valid_temps),
              temp_range |-> SeqMax(valid_temps) - SeqMin(valid_temps)]

check_battery_temp_stability(fd) ==
    IF Falsy(fd) THEN FlightDataNotAvailable
    ELSE IF BatLogMissing(fd) THEN [kind |-> "No 'BAT' (battery) log data found"]
    ELSE TryExcept(check_battery_temp_stability_body(fd),
                   "Error: Missing expected column in BAT data",
                   "An unexpected error occurred while processing battery temperature stability")

----------------------------------------------------------------------------
(* list_mode_changes *)

RECURSIVE ModeChanges_AgainstFirst(_, _, _)
\* variant: previous_mode keeps the first mode seen
ModeChanges_AgainstFirst(mode_df, i, previous_mode) ==
    IF i > Len(mode_df) THEN <<>>
    ELSE LET row == mode_df[i]
         IN  IF "ModeNum" \notin DOMAIN row
             THEN ModeChanges_AgainstFirst(mode_df, i + 1, previous_mode)
             ELSE IF previous_mode = <<>> \/ row["ModeNum"] # previous_mode[1]
             THEN << [mode_num  |-> row["ModeNum"],
                      mode_name |-> IF "ModeText" \in DOMAIN row
                                    THEN [text |-> row["ModeText"]]
                                    ELSE [mode |-> row["ModeNum"]],
                      timestamp |-> _format_time_string(row["time_sec"])] >>
                  \o ModeChanges_AgainstFirst(mode_df, i + 1,
                        IF previous_mode = <<>> THEN <<row["ModeNum"]>> ELSE previous_mode)
             ELSE ModeChanges_AgainstFirst(mode_df, i + 1, previous_mode)


\* previous_mode is <<>> for None and <<m>> for mode m
RECURSIVE ModeChanges(_, _, _)
\* the loop over mode_df.iterrows(), from row i on; rows whose ModeNum is
\* missing (NaN) are skipped.
ModeChanges(mode_df, i, previous_mode) ==
    IF i > Len(mode_df) THEN <<>>
    ELSE LET row == mode_df[i]
         IN  IF "ModeNum" \notin DOMAIN row
             THEN ModeChanges(mode_df, i + 1, previous_mode)
             ELSE IF previous_mode = <<>> \/ row["ModeNum"] # previous_mode[1]
             THEN << [mode_num  |-> row["ModeNum"],
                      mode_name |-> IF "ModeText" \in DOMAIN row
                                    THEN [text |-> row["ModeText"]]
                                    ELSE [mode |-> row["ModeNum"]],
                      timestamp |-> _format_time_string(row["time_sec"])] >>
                  \o ModeChanges(mode_df, i + 1, <<row["ModeNum"]>>)
             ELSE ModeChanges(mode_df, i + 1, previous_mode)

list_mode_changes_body(fd) ==
    LET mode_log == fd.tables["MODE"]
        raw_df   == DataFrame(mode_log)
        tc       == _get_time_column_and_divisor(Columns(raw_df))
        TimeSecOf(row) == ToSeconds(row[tc.col], tc.divisor)
        mode_df  == SortValues(WithColumn(raw_df, "time_sec", [n_ \in DOMAIN raw_df |-> TimeSecOf(raw_df[n_])]), "time_sec")
        mode_changes == ModeChanges(mode_df, 1, <<>>)
    IN  IF ~IsDict(mode_log) /\ ~IsList(mode_log)
        THEN [kind |-> "MODE log format is not recognized"]
        ELSE IF "ModeNum" \notin Columns(raw_df)
        THEN [kind |-> "MODE log does not contain a 'ModeNum' field"]
        ELSE IF tc.col = NoTimeCol
        THEN [kind |-> "No usable timestamp column found in MODE log"]
        ELSE IF mode_changes = <<>>
        THEN [kind |-> "No flight mode changes were detected"]
        ELSE [kind |-> "Flight Mode Changes Detected", mode_changes |-> mode_changes]

list_mode_changes(fd) ==
    IF Falsy(fd) \/ ~HasTable(fd, "MODE") \/ EmptyTable(fd.tables["MODE"])
    THEN [kind |-> "MODE log is missing or empty"]
    ELSE TryExcept(list_mode_changes_body(fd),
                   "An unexpected error occurred while listing mode changes",
                   "An unexpected error occurred while listing mode changes")

----------------------------------------------------------------------------
(* list_critical_errors *)

ARDUPILOT_SUBSYSTEM_MAP ==
    <<"Main system", "Radio", "Compass", "Optical Flow", "Failsafe: Radio",
      "Failsafe: Battery", "Failsafe: GPS", "Failsafe: GCS", "Failsafe: Fence",
      "Flight mode", "GPS", "Crash check", "Flip", "Autotune", "Parachute",
      "EKF check", "Failsafe: EKF Inav", "Barometer", "CPU", "Failsafe: ADSB",
      "Terrain", "Navigation", "Failsafe: Terrain", "EKF primary",
      "Thrust loss check", "Failsafe: Sensors", "Failsafe: Leak", "Pilot input",
      "Failsafe: Vibration", "Internal error", "Failsafe: Dead reckoning">>

\* keys 0, 1, 2
ERROR_CODE_DESCRIPTIONS ==
    [c \in 0..2 |-> CASE c = 0 -> "Cleared"
                      [] c = 1 -> "Set (error occurred)"
                      [] OTHER -> "Recovered from error"]

\* A cell holding a JSON string that is no number (such as "n/a") is encoded
\* as this value, which no numeric cell of the input families takes.
NonNumeric == 999999

\* int(v) and v / divisor succeed: int("n/a") raises ValueError and
\* "n/a" / divisor raises TypeError
Coercible(v) == v # NonNumeric

\* variant: the fallback text without the number
Lookup_Unnumbered(map, key, fallback) ==
    IF key \in DOMAIN map THEN [name |-> map[key]]
    ELSE [name |-> fallback]


\* map.get(key, f"<fallback> ({key})")
Lookup(map, key, fallback) ==
    IF key \in DOMAIN map THEN [name |-> map[key]]
    ELSE [name |-> fallback, value |-> key]

RECURSIVE CriticalErrorLines_BySubsystem(_, _, _, _)
\* variant: the seen set keyed by the subsystem alone
CriticalErrorLines_BySubsystem(err_df, tc, i, seen_error_types) ==
    IF i > Len(err_df) THEN <<>>
    ELSE LET row == err_df[i]
             error_key == <<row["Subsys"]>>
         IN  IF error_key \in seen_error_types
             THEN CriticalErrorLines_BySubsystem(err_df, tc, i + 1, seen_error_types)
             ELSE << [timestamp |-> _format_time_string(ToSeconds(row[tc.col], tc.divisor)),
                      subsys    |-> Lookup(ARDUPILOT_SUBSYSTEM_MAP, row["Subsys"],
                                           "Unknown Subsystem"),
                      ecode     |-> Lookup(ERROR_CODE_DESCRIPTIONS, row["ECode"],
                                           "Code")] >>
                  \o CriticalErrorLines_BySubsystem(err_df, tc, i + 1,
                                                    seen_error_types \cup {error_key})


RECURSIVE CriticalErrorLines(_, _, _, _)
\* the loop over err_df.iterrows(), from row i on, with the set of seen pairs.
\* A row without Subsys or ECode is skipped (row.get gives None, or int(NaN)
\* raises ValueError inside the inner try), and so is a row whose Subsys or
\* ECode is not a number (ValueError inside the inner try).  The division
\* raw_time / divisor is outside the inner try.
CriticalErrorLines(err_df, tc, i, seen_error_types) ==
    IF i > Len(err_df) THEN <<>>
    ELSE LET row == err_df[i]
             error_key == <<row["Subsys"], row["ECode"]>>
         IN  IF "Subsys" \notin DOMAIN row \/ "ECode" \notin DOMAIN row
             THEN CriticalErrorLines(err_df, tc, i + 1, seen_error_types)
             ELSE IF ~Coercible(row["Subsys"]) \/ ~Coercible(row["ECode"])
             THEN CriticalErrorLines(err_df, tc, i + 1, seen_error_types)
             ELSE IF error_key \in seen_error_types
             THEN CriticalErrorLines(err_df, tc, i + 1, seen_error_types)
             ELSE << [timestamp |-> IF tc.col \notin DOMAIN row
                                    THEN Raise("ValueError")
                                    ELSE IF ~Coercible(row[tc.col])
                                    THEN Raise("TypeError")
                                    ELSE _format_time_string(
                                             ToSeconds(row[tc.col], tc.divisor)),
                      subsys    |-> Lookup(ARDUPILOT_SUBSYSTEM_MAP, row["Subsys"],
                                           "Unknown Subsystem"),
                      ecode     |-> Lookup(ERROR_CODE_DESCRIPTIONS, row["ECode"],
                                           "Code")] >>
                  \o CriticalErrorLines(err_df, tc, i + 1,
                                        seen_error_types \cup {error_key})

list_critical_errors_body(fd) ==
    LET err_df == DataFrame(fd.tables["ERR"])
        tc     == _get_time_column_and_divisor(Columns(err_df))
        output_lines == CriticalErrorLines(err_df, tc, 1, {})
    IN  \* err_df.empty: no rows or no columns
        IF Columns(err_df) = {}
        THEN [kind |-> "The 'ERR' log is present, but no critical errors were recorded"]
        ELSE IF tc.col = NoTimeCol
        THEN [kind |-> "No valid timestamp column found in ERR log"]
        ELSE IF \E k \in 1..Len(output_lines) : "exc" \in DOMAIN output_lines[k].timestamp
        THEN Raise("ValueError")  \* int(nan) in _format_time_string, or str / int
        ELSE IF output_lines = <<>>
        THEN [kind |-> "The 'ERR' log is present, but no distinct critical errors were recorded"]
        ELSE [kind |-> "Critical Errors Detected in Flight Log",
              output_lines |-> output_lines]

list_critical_errors(fd) ==
    IF Falsy(fd) THEN FlightDataNotAvailable
    ELSE IF ~HasTable(fd, "ERR") \/ EmptyTable(fd.tables["ERR"])
    THEN [kind |-> "No 'ERR' (error) messages found in the flight log"]
    ELSE TryExcept(list_critical_errors_body(fd),
                   "Error: Missing expected column in ERR data",
                   "An unexpected error occurred while processing 'ERR' log")

----------------------------------------------------------------------------
(* analyze_ekf_health_status *)

EKF_SUBSYSTEMS == {16, 24}

IsEkfRow(row) == "Subsys" \in DOMAIN row /\ row["Subsys"] \in EKF_SUBSYSTEMS

\* int(row.get('ECode', -1)): -1 when the frame has no ECode column
EcodeOf(row) == IF "ECode" \in DOMAIN row THEN row["ECode"] ELSE 0 - 1

RECURSIVE EkfStart(_, _)
\* time of the first row (from i on) with ECode 1, as <<t>>, or <<>>
EkfStart(rows, i) ==
    IF i > Len(rows) THEN <<>>
    ELSE IF EcodeOf(rows[i]) = 1 THEN <<i>>
    ELSE EkfStart(rows, i + 1)

\* variant: the first row with ECode 0, wherever the start row is
EkfEnd_AnyCleared(rows, i) ==
    IF \E k \in 1..Len(rows) : EcodeOf(rows[k]) = 0
    THEN << CHOOSE k \in 1..Len(rows) :
               /\ EcodeOf(rows[k]) = 0
               /\ \A j \in 1..(k - 1) : EcodeOf(rows[j]) # 0 >>
    ELSE <<>>


RECURSIVE EkfEnd(_, _)
\* first row after the start row with ECode 0
EkfEnd(rows, i) ==
    IF i > Len(rows) THEN <<>>
    ELSE IF EcodeOf(rows[i]) = 0 THEN <<i>>
    ELSE EkfEnd(rows, i + 1)

analyze_ekf_health_status_body(fd) ==
    LET err_df == DataFrame(fd.tables["ERR"])
        cols   == Columns(err_df)
        tc     == _get_time_column_and_divisor(cols)
        TimeSecOf(row) == ToSeconds(row[tc.col], tc.divisor)
        ekf_rows == SelectRows(err_df, [n_ \in DOMAIN err_df |-> IsEkfRow(err_df[n_])])
        ekf_error_rows ==
            SortValues(WithColumn(ekf_rows, "time_sec",
                                  [n_ \in DOMAIN ekf_rows |-> TimeSecOf(ekf_rows[n_])]),
                       "time_sec")
        all_ekf_events ==
            [k \in 1..Len(ekf_error_rows) |->
                [subsys |-> Lookup(ARDUPILOT_SUBSYSTEM_MAP, ekf_error_rows[k]["Subsys"],
                                   "Unknown EKF Subsystem"),
                 ecode  |-> Lookup(ERROR_CODE_DESCRIPTIONS, EcodeOf(ekf_error_rows[k]),
                                   "Code"),
                 time   |-> _format_time_string(ekf_error_rows[k]["time_sec"])]]
        start  == EkfStart(ekf_error_rows, 1)
        end    == IF start = <<>> THEN <<>> ELSE EkfEnd(ekf_error_rows, start[1] + 1)
        start_time == ekf_error_rows[start[1]]["time_sec"]
        end_time   == ekf_error_rows[end[1]]["time_sec"]
    IN  IF tc.col = NoTimeCol
        THEN [kind |-> "No valid timestamp column found in ERR log"]
        ELSE IF "Subsys" \notin cols
        THEN Raise("KeyError")  \* err_df["Subsys"]
        ELSE IF ekf_rows = <<>>
        THEN [kind |-> "No EKF-related errors (Subsystem 16 or 24) found"]
        ELSE IF \E k \in 1..Len(ekf_rows) : ~Coercible(ekf_rows[k][tc.col])
        THEN Raise("TypeError")  \* ekf_error_rows[time_col] / divisor
        ELSE IF \E k \in 1..Len(ekf_error_rows) :
                    \/ "ECode" \in cols /\ "ECode" \notin DOMAIN ekf_error_rows[k]
                    \/ ~Coercible(EcodeOf(ekf_error_rows[k]))
        THEN Raise("ValueError")  \* int(nan), int("n/a")
        ELSE IF start # <<>> /\ end # <<>>
        THEN [kind |-> "EKF entered an error state and recovered",
              all_ekf_events |-> all_ekf_events,
              start    |-> _format_time_string(start_time),
              end      |-> _format_time_string(end_time),
              duration |-> end_time - start_time]
        ELSE IF start # <<>>
        THEN [kind |-> "EKF entered an error state, but no recovery event was logged",
              all_ekf_events |-> all_ekf_events,
              start    |-> _format_time_string(start_time)]
        ELSE [kind |-> "No clear EKF error start or recovery events were found",
              all_ekf_events |-> all_ekf_events]

analyze_ekf_health_status(fd) ==
    IF Falsy(fd) THEN FlightDataNotAvailable
    ELSE IF ~HasTable(fd, "ERR") \/ EmptyTable(fd.tables["ERR"])
    THEN [kind |-> "No 'ERR' log data found to analyze EKF health status"]
    ELSE TryExcept(analyze_ekf_health_status_body(fd),
                   "Error: Missing expected column in ERR data for EKF analysis",
                   "An unexpected error occurred while analyzing EKF health")

----------------------------------------------------------------------------
(* The inline time-field selection of correlate_errors_with_mode_changes   *)
(* and detect_sensor_triggered_failsafe:                                   *)
(*   next((col for col in ["TimeUS", "TimeMS", "time_boot_ms"] if ...))    *)
(*   divisor = 1_000_000 if col == "TimeUS" else 1_000                     *)

INLINE_TIME_COLUMNS == <<"TimeUS", "TimeMS", "time_boot_ms">>

RECURSIVE NextPresent(_, _)
NextPresent(names, cols) ==
    IF names = <<>> THEN NoTimeCol
    ELSE IF Head(names) \in cols THEN Head(names)
    ELSE NextPresent(Tail(names), cols)

InlineTimeColumn(cols) ==
    LET col == NextPresent(INLINE_TIME_COLUMNS, cols)
    IN  [col |-> col, divisor |-> IF col = "TimeUS" THEN 1000000 ELSE 1000]

----------------------------------------------------------------------------
(* detect_sensor_triggered_failsafe *)

SUBSYSTEM_MAP ==
    [k \in {0, 3, 5, 6, 8, 22, 24, 28} |->
        CASE k = 0 -> "Main system"
          [] k = 3 -> "Compass"
          [] k = 5 -> "Accelerometer"
          [] k = 6 -> "Barometer"
          [] k = 8 -> "EKF (Extended Kalman Filter)"
          [] k = 22 -> "Gyroscope"
          [] k = 24 -> "Board voltage"
          [] OTHER -> "GCS failsafe"]

ERROR_CODE_MAP ==
    [k \in 0..4 |->
        CASE k = 0 -> "No error (cleared)"
          [] k = 1 -> "Error status"
          [] k = 2 -> "Warning status"
          [] k = 3 -> "Critical"
          [] OTHER -> "Failsafe activated"]

sensor_subsystems == {3, 5, 6, 8, 22}

SENSOR_TRIGGER_CODES == {1, 3, 4}

\* variant: the EKF core subsystem (16) counted among the sensors
IsSensorRow_WithEkfCore(row) ==
    "Subsys" \in DOMAIN row /\ row["Subsys"] \in sensor_subsystems \cup {16}


IsSensorRow(row) == "Subsys" \in DOMAIN row /\ row["Subsys"] \in sensor_subsystems

IsTriggerRow(row) == "ECode" \in DOMAIN row /\ row["ECode"] \in SENSOR_TRIGGER_CODES

detect_sensor_triggered_failsafe_body(fd) ==
    LET err_log == fd.tables["ERR"]
        df      == DataFrame(err_log)
        cols    == Columns(df)
        relevant  == SelectRows(df, [n_ \in DOMAIN df |-> IsSensorRow(df[n_])])
        triggered == SelectRows(relevant, [n_ \in DOMAIN relevant |-> IsTriggerRow(relevant[n_])])
        tc      == InlineTimeColumn(cols)
        messages ==
            [k \in 1..Len(triggered) |->
                [subsystem |-> Lookup(SUBSYSTEM_MAP, triggered[k]["Subsys"], "Subsystem"),
                 code      |-> Lookup(ERROR_CODE_MAP, triggered[k]["ECode"], "Code"),
                 time_str  |->
                    IF tc.col = NoTimeCol THEN [unknown_time |-> TRUE]
                    ELSE LET timestamp == ToSeconds(triggered[k][tc.col], tc.divisor)
                         IN  [minutes |-> timestamp \div (60 * UsPerSecond),
                              seconds |-> ((timestamp % (60 * UsPerSecond)) + 5000)
                                          \div 10000]]]
    IN  IF ~IsList(err_log) \/ err_log.list = <<>>
        THEN [kind |-> "ERR log is empty or malformed"]
        ELSE IF ~({"Subsys", "ECode"} \subseteq cols)
        THEN [kind |-> "ERR log is missing required fields (Subsys and ECode)"]
        ELSE IF triggered = <<>>
        THEN [kind |-> "No sensor-triggered failsafes occurred during the flight"]
        ELSE IF tc.col # NoTimeCol
                /\ \E k \in 1..Len(triggered) : tc.col \notin DOMAIN triggered[k]
        THEN Raise("ValueError")  \* int(nan)
        ELSE IF tc.col # NoTimeCol
                /\ \E k \in 1..Len(triggered) : ~Coercible(triggered[k][tc.col])
        THEN Raise("TypeError")  \* raw_time / 1_000
        ELSE [kind |-> "sensor-triggered failsafes", messages |-> messages]

detect_sensor_triggered_failsafe(fd) ==
    IF Falsy(fd) THEN [kind |-> "No flight data available"]
    ELSE IF ~HasTable(fd, "ERR")
    THEN [kind |-> "No ERR logs found. Cannot detect sensor-triggered failsafes"]
    ELSE TryExcept(detect_sensor_triggered_failsafe_body(fd),
                   "Internal error while detecting sensor failsafes",
                   "Internal error while detecting sensor failsafes")

----------------------------------------------------------------------------
(* correlate_errors_with_mode_changes *)

\* the window of the comparison mode_df["time_sec"] <= t_err + 1
CorrelationWindowUsed == 1

\* declared at module level, never read
CORRELATION_WINDOW_SECONDS == 5

HasTime(row) == "time_sec" \in DOMAIN row

\* rows without the chosen time field get no time_sec (NaN compares False)
WithTimeSec(tbl, tc) ==
    [i \in 1..Len(tbl) |->
        IF tc.col \in DOMAIN tbl[i]
        THEN [c \in DOMAIN tbl[i] \cup {"time_sec"} |->
                 IF c = "time_sec" THEN ToSeconds(tbl[i][tc.col], tc.divisor)
                 ELSE tbl[i][c]]
        ELSE tbl[i]]

\* The times are IEEE-754 doubles in the code, and the sum t_err + 1 is
\* rounded.  At these error times (in microseconds, the times of the input
\* families checked one by one) the rounded sum is below the double of the
\* instant exactly one second later: 118 / 1000 + 1 = 1.1179999999999999,
\* and 1118 / 1000 = 1.118.  At every other difference between two times of
\* the families the rounding does not change the comparison.
PlusOneFallsShort == {118000}

RecentModeChanges(mode_df, t_err) ==
    LET upper == t_err + CorrelationWindowUsed * UsPerSecond
        InWindow(row) == /\ HasTime(row)
                         /\ row["time_sec"] >= t_err
                         /\ \/ row["time_sec"] < upper
                            \/ row["time_sec"] = upper /\ t_err \notin PlusOneFallsShort
    IN  SelectRows(mode_df, [n_ \in DOMAIN mode_df |-> InWindow(mode_df[n_])])

RECURSIVE CorrelationResults(_, _, _)
\* the loop over err_df.iterrows(), from row i on
CorrelationResults(err_df, mode_df, i) ==
    IF i > Len(err_df) THEN <<>>
    ELSE LET err == err_df[i]
             recent == IF HasTime(err) THEN RecentModeChanges(mode_df, err["time_sec"])
                       ELSE <<>>
         IN  [k \in 1..Len(recent) |->
                 [subsystem |-> IF "Subsys" \in DOMAIN err THEN <<err["Subsys"]>> ELSE <<>>,
                  code      |-> IF "ECode" \in DOMAIN err THEN <<err["ECode"]>> ELSE <<>>,
                  t_err     |-> err["time_sec"],
                  t_mode    |-> recent[k]["time_sec"],
                  delta     |-> recent[k]["time_sec"] - err["time_sec"],
                  mode      |-> IF "Mode" \in DOMAIN recent[k]
                                THEN [mode |-> recent[k]["Mode"]]
                                ELSE IF "ModeNum" \in DOMAIN recent[k]
                                THEN [mode_num |-> recent[k]["ModeNum"]]
                                ELSE [unknown |-> TRUE]]]
             \o CorrelationResults(err_df, mode_df, i + 1)

correlate_errors_with_mode_changes_mode(fd, raw_err, time_err) ==
    LET mode_log == fd.tables["MODE"]
        raw_mode == DataFrame(mode_log)
        time_mode == InlineTimeColumn(Columns(raw_mode))
        results  == CorrelationResults(WithTimeSec(raw_err, time_err),
                                       WithTimeSec(raw_mode, time_mode), 1)
    IN  IF ~IsDict(mode_log) /\ ~IsList(mode_log)
        THEN [kind |-> "MODE log format is unrecognized"]
        ELSE IF {"Mode", "ModeNum"} \cap Columns(raw_mode) = {}
        THEN [kind |-> "MODE log is missing required fields (Mode or ModeNum)"]
        ELSE IF time_mode.col = NoTimeCol
        THEN [kind |-> "Could not find timestamp column in MODE log"]
        ELSE IF results = <<>>
        THEN [kind |-> "No mode changes were detected within 1 second of error events"]
        ELSE [kind |-> "Yes, the following mode changes closely followed error events",
              results |-> results]

correlate_errors_with_mode_changes_body(fd) ==
    LET err_df   == DataFrame(fd.tables["ERR"])
        time_err == InlineTimeColumn(Columns(err_df))
    IN  IF ~({"Subsys", "ECode"} \subseteq Columns(err_df))
        THEN [kind |-> "ERR log is missing required fields (Subsys and ECode)"]
        ELSE IF time_err.col = NoTimeCol
        THEN [kind |-> "Could not find timestamp column in ERR log"]
        ELSE IF ~HasTable(fd, "MODE")
        THEN [kind |-> "MODE log not found in the data"]
        ELSE correlate_errors_with_mode_changes_mode(fd, err_df, time_err)

correlate_errors_with_mode_changes(fd) ==
    IF Falsy(fd) THEN [kind |-> "No flight data available"]
    ELSE IF ~HasTable(fd, "ERR") THEN [kind |-> "ERR log not found in the data"]
    ELSE TryExcept(correlate_errors_with_mode_changes_body(fd),
                   "Error during correlation analysis",
                   "Error during correlation analysis")

----------------------------------------------------------------------------
(* analyze_gps_health *)

\* the text assembled from the three sub-results
gps_health_summary(first_loss_summary, degradation_duration_summary, raw_gps_telemetry_summary) ==
    [kind |-> "GPS Signal Health Summary",
     first_loss_summary           |-> first_loss_summary,
     degradation_duration_summary |-> degradation_duration_summary,
     raw_gps_telemetry_summary    |-> raw_gps_telemetry_summary]

analyze_gps_health(fd) ==
    gps_health_summary(find_first_gps_loss(fd),
                       get_gps_degradation_duration(fd),
                       analyze_raw_telemetry(fd))

----------------------------------------------------------------------------
(* summarize_all_anomalies                                                 *)
(* The substring tests of the code are tabulated over the message each     *)
(* result kind stands for.                                                 *)

\* "Subsystem" in err_summary: only the listing ("**Subsystem**: ...")
ContainsSubsystem(r) == r.kind = "Critical Errors Detected in Flight Log"

\* "loss" in rc_status.lower(): every message of check_rc_signal_loss that
\* contains "RC signal loss"; the two inference messages do not.
ContainsLoss(r) ==
    r.kind \in
      {"RC signal loss detected! The first RC Failsafe (EV.Id = 10) occurred at",
       "RC signal loss detected (EV.Id = 10), but no timestamp could be accurately determined",
       "'EV' log is present, and no RC signal loss (EV.Id = 10) was detected",
       "The 'EV' log is present, but lacks the 'Id' field",
       "Error: Missing expected column in EV data",
       "An unexpected error occurred while processing 'EV' logs for RC signal loss",
       "Fallback to MODE log failed: no 'Mode' column present",
       "No 'EV' log found, and no common RC failsafe modes were detected; RC signal loss is unlikely",
       "Error: Missing expected column in MODE data",
       "An unexpected error occurred while processing 'MODE' logs for RC signal loss inference",
       "Neither 'EV' nor 'MODE' logs are available"}

\* "error" in ekf_status.lower()
ContainsError(r) ==
    r.kind \in
      {"No EKF-related errors (Subsystem 16 or 24) found",
       "EKF entered an error state and recovered",
       "EKF entered an error state, but no recovery event was logged",
       "No clear EKF error start or recovery events were found",
       "Error: Missing expected column in ERR data for EKF analysis",
       "An unexpected error occurred while analyzing EKF health"}

\* "Drop of" in drop_check
ContainsDropOf(r) == r.kind = "Unusual altitude drops detected"

\* "fluctuated" in battery_check or "invalid" in battery_check
ContainsFluctuatedOrInvalid(r) ==
    r.kind \in {"The battery temperature fluctuated",
                "All battery temperature values are zero or invalid"}

DEFAULT_THRESHOLD_M == 10

DEFAULT_WINDOW_S == 5

Section(tag, body) == << [tag |-> tag, body |-> body] >>

\* variant: the RC section appended ahead of the GPS section
summarize_all_anomalies_body_RcFirst(fd) ==
    LET err_summary   == list_critical_errors(fd)
        gps_health    == analyze_gps_health(fd)
        rc_status     == check_rc_signal_loss(fd)
        ekf_status    == analyze_ekf_health_status(fd)
        drop_check    == detect_unusual_altitude_drops(fd, DEFAULT_THRESHOLD_M,
                                                       DEFAULT_WINDOW_S)
        battery_check == check_battery_temp_stability(fd)
        summaries ==
            (IF ContainsSubsystem(err_summary)
             THEN Section("Critical Errors (Subsystem Faults)", err_summary) ELSE <<>>)
            \o (IF ContainsLoss(rc_status)
                THEN Section("RC Signal Loss", rc_status)
                ELSE Section("RC Signal Check", rc_status))
            \o Section("GPS Signal Anomalies", gps_health)
            \o (IF ContainsError(ekf_status)
                THEN Section("EKF Health Warnings", ekf_status) ELSE <<>>)
            \o (IF ContainsDropOf(drop_check)
                THEN Section("Altitude Drop Detected", drop_check) ELSE <<>>)
            \o (IF ContainsFluctuatedOrInvalid(battery_check)
                THEN Section("Battery Temperature", battery_check) ELSE <<>>)
    IN  IF summaries = <<>>
        THEN [kind |-> "No significant anomalies were detected in the flight logs"]
        ELSE [kind |-> "report", summaries |-> summaries]


\* the report assembled from the six results
summarize_sections(err_summary, gps_health, rc_status, ekf_status, drop_check, battery_check) ==
    LET summaries ==
            (IF ContainsSubsystem(err_summary)
             THEN Section("Critical Errors (Subsystem Faults)", err_summary) ELSE <<>>)
            \o Section("GPS Signal Anomalies", gps_health)
            \o (IF ContainsLoss(rc_status)
                THEN Section("RC Signal Loss", rc_status)
                ELSE Section("RC Signal Check", rc_status))
            \o (IF ContainsError(ekf_status)
                THEN Section("EKF Health Warnings", ekf_status) ELSE <<>>)
            \o (IF ContainsDropOf(drop_check)
                THEN Section("Altitude Drop Detected", drop_check) ELSE <<>>)
            \o (IF ContainsFluctuatedOrInvalid(battery_check)
                THEN Section("Battery Temperature", battery_check) ELSE <<>>)
    IN  IF summaries = <<>>
        THEN [kind |-> "No significant anomalies were detected in the flight logs"]
        ELSE [kind |-> "report", summaries |-> summaries]

summarize_all_anomalies_body(fd) ==
    summarize_sections(list_critical_errors(fd),
                       analyze_gps_health(fd),
                       check_rc_signal_loss(fd),
                       analyze_ekf_health_status(fd),
                       detect_unusual_altitude_drops(fd, DEFAULT_THRESHOLD_M,
                                                     DEFAULT_WINDOW_S),
                       check_battery_temp_stability(fd))

summarize_all_anomalies(fd) ==
    IF Falsy(fd) THEN [kind |-> "Flight data not found. Please upload a valid log file first"]
    ELSE TryExcept(summarize_all_anomalies_body(fd),
                   "Error while summarizing anomalies",
                   "Error while summarizing anomalies")

----------------------------------------------------------------------------
(* State machine *)

NoResult == [op |-> "none"]

START == "__start__"

END == "__end__"

\* no HTTP request received, no agent run started (empty checkpoint), no
\* tool invocation under way
NoRequests == <<>>

NoRun == [node |-> START, messages |-> <<>>]

NoCall == [op |-> "none"]

NothingInFlight ==
    /\ requests = NoRequests
    /\ agent_state = NoRun
    /\ running = NoCall

Init ==
    /\ SHARED_FLIGHT_DATA = NoneData
    /\ result = NoResult
    /\ NothingInFlight

\* variant: the new payload is merged into the stored dataset, table by table
set_flight_data_Merging(data) ==
    /\ SHARED_FLIGHT_DATA' =
          IF SHARED_FLIGHT_DATA.isNone THEN data
          ELSE SomeData([n \in DOMAIN SHARED_FLIGHT_DATA.tables \cup DOMAIN data.tables |->
                           IF n \in DOMAIN data.tables THEN data.tables[n]
                           ELSE SHARED_FLIGHT_DATA.tables[n]])
    /\ UNCHANGED result


\* data_parser.set_flight_data
set_flight_data(data) ==
    /\ SHARED_FLIGHT_DATA' = data
    /\ UNCHANGED result

\* data_parser.get_flight_data
get_flight_data == SHARED_FLIGHT_DATA

\* variant: the frames with their added time_sec column are written back
\* into the stored dataset
Return_KeepingFrames(op, out) ==
    /\ result' = [op |-> op, out |-> out]
    /\ SHARED_FLIGHT_DATA' =
          IF SHARED_FLIGHT_DATA.isNone THEN SHARED_FLIGHT_DATA
          ELSE SomeData([n \in DOMAIN SHARED_FLIGHT_DATA.tables |->
                   LET t == SHARED_FLIGHT_DATA.tables[n]
                   IN  IF IsList(t)
                       THEN ListTable(WithTimeSec(t.list,
                                _get_time_column_and_divisor(Columns(t.list))))
                       ELSE t])
    /\ UNCHANGED <<requests, agent_state, running>>

\* a tool invocation: the tool reads the dataset through get_flight_data()
\* and returns its result; the dataset is left alone
Return(op, out) ==
    /\ result' = [op |-> op, out |-> out]
    /\ UNCHANGED <<SHARED_FLIGHT_DATA, requests, agent_state, running>>

Call_get_highest_altitude ==
    Return("get_highest_altitude", get_highest_altitude(get_flight_data))

Call_find_first_gps_loss ==
    Return("find_first_gps_loss", find_first_gps_loss(get_flight_data))

Call_get_gps_degradation_duration ==
    Return("get_gps_degradation_duration", get_gps_degradation_duration(get_flight_data))

Call_get_max_battery_temperature ==
    Return("get_max_battery_temperature", get_max_battery_temperature(get_flight_data))

Call_get_total_flight_time ==
    Return("get_total_flight_time", get_total_flight_time(get_flight_data))

Call_check_rc_signal_loss ==
    Return("check_rc_signal_loss", check_rc_signal_loss(get_flight_data))

Call_analyze_raw_telemetry ==
    Return("analyze_raw_telemetry", analyze_raw_telemetry(get_flight_data))

Call_check_battery_temp_stability ==
    Return("check_battery_temp_stability", check_battery_temp_stability(get_flight_data))

Call_list_mode_changes ==
    Return("list_mode_changes", list_mode_changes(get_flight_data))

Call_list_critical_errors ==
    Return("list_critical_errors", list_critical_errors(get_flight_data))

Call_analyze_gps_health ==
    Return("analyze_gps_health", analyze_gps_health(get_flight_data))

Call_correlate_errors_with_mode_changes ==
    Return("correlate_errors_with_mode_changes",
           correlate_errors_with_mode_changes(get_flight_data))

Call_detect_sensor_triggered_failsafe ==
    Return("detect_sensor_triggered_failsafe",
           detect_sensor_triggered_failsafe(get_flight_data))

Call_analyze_ekf_health_status ==
    Return("analyze_ekf_health_status", analyze_ekf_health_status(get_flight_data))

Call_summarize_all_anomalies ==
    Return("summarize_all_anomalies", summarize_all_anomalies(get_flight_data))

Thresholds == {5, 10}

Windows == {1, 5}

Call_detect_unusual_altitude_drops ==
    \E threshold_m \in Thresholds, window_s \in Windows :
        /\ result' = [op |-> "detect_unusual_altitude_drops",
                      threshold_m |-> threshold_m, window_s |-> window_s,
                      out |-> detect_unusual_altitude_drops(get_flight_data,
                                                            threshold_m, window_s)]
        /\ UNCHANGED <<SHARED_FLIGHT_DATA, requests, agent_state, running>>

----------------------------------------------------------------------------
(* Input datasets, schema family: every subset of the columns a table can  *)
(* carry, for one table or for the table pairs a tool reads together.      *)

TimeColumns == {"TimeUS", "time_boot_ms", "TimeMS"}

ValueColumns ==
    [t \in {"BARO", "GPS", "BAT", "EV", "MODE", "ERR"} |->
        CASE t = "BARO" -> {"Alt"}
          [] t = "GPS"  -> {"NSats", "FixType"}
          [] t = "BAT"  -> {"Temp"}
          [] t = "EV"   -> {"Id"}
          [] t = "MODE" -> {"Mode", "ModeNum"}
          [] OTHER      -> {"Subsys", "ECode"}]

TableNames == DOMAIN ValueColumns

SchemaRows == 2

\* cell of row i; the three time fields of a row carry different instants.
\* An eventful flight has a finding in row 2, a quiet one has none.
SchemaCell(col, i, eventful) ==
    CASE col = "TimeUS"       -> i * 1000000
      [] col = "time_boot_ms" -> i * 1000 + 500
      [] col = "TimeMS"       -> i * 1000 + 250
      [] col = "Alt"          -> IF eventful /\ i > 1 THEN 30 ELSE 50
      [] col = "NSats"        -> IF eventful /\ i > 1 THEN 4 ELSE 8
      [] col = "FixType"      -> IF eventful /\ i > 1 THEN 1 ELSE 3
      [] col = "Temp"         -> IF eventful /\ i > 1 THEN 300 ELSE 250
      [] col = "Id"           -> IF eventful /\ i > 1 THEN 10 ELSE 7
      [] col = "Mode"         -> IF eventful /\ i > 1 THEN 6 ELSE 0
      [] col = "ModeNum"      -> IF eventful /\ i > 1 THEN 6 ELSE 0
      [] col = "Subsys"       -> IF i > 1 THEN 3 ELSE 16
      [] OTHER                -> IF eventful THEN 1 ELSE 0

SchemaTable(cols, eventful) ==
    ListTable([i \in 1..SchemaRows |-> [c \in cols |-> SchemaCell(c, i, eventful)]])

SchemaTables(t) ==
    {SchemaTable(cols, eventful) :
        cols \in SUBSET (TimeColumns \cup ValueColumns[t]), eventful \in BOOLEAN}
    \cup {ListTable(<<>>)}

One(t, tbl) == SomeData([n \in {t} |-> tbl])

Two(t1, tbl1, t2, tbl2) == SomeData([n \in {t1, t2} |-> IF n = t1 THEN tbl1 ELSE tbl2])

SchemaDatasets ==
    {NoneData, SomeData([n \in {} |-> <<>>])}
    \cup UNION {{One(t, tbl) : tbl \in SchemaTables(t)} : t \in TableNames}
    \cup {Two("ERR", e, "MODE", m) : e \in SchemaTables("ERR"), m \in SchemaTables("MODE")}
    \cup {Two("EV", e, "MODE", m) : e \in SchemaTables("EV"), m \in SchemaTables("MODE")}

InitSchema ==
    /\ SHARED_FLIGHT_DATA \in SchemaDatasets
    /\ result = NoResult
    /\ NothingInFlight

Next ==
    \/ Call_get_highest_altitude
    \/ Call_find_first_gps_loss
    \/ Call_get_gps_degradation_duration
    \/ Call_get_max_battery_temperature
    \/ Call_get_total_flight_time
    \/ Call_check_rc_signal_loss
    \/ Call_detect_unusual_altitude_drops
    \/ Call_analyze_raw_telemetry
    \/ Call_check_battery_temp_stability
    \/ Call_list_mode_changes
    \/ Call_list_critical_errors
    \/ Call_analyze_gps_health
    \/ Call_correlate_errors_with_mode_changes
    \/ Call_detect_sensor_triggered_failsafe
    \/ Call_analyze_ekf_health_status
    \/ Call_summarize_all_anomalies

Spec == InitSchema /\ [][Next]_vars

----------------------------------------------------------------------------
(* Input datasets, BARO family: short altitude series in any row order     *)

MaxBaroRows == 3

BaroTicks == {0, 1000, 2000}

BaroAlts == {0, 5, 10}

BaroRowSet == [TimeMS : BaroTicks, Alt : BaroAlts]

BaroDatasets ==
    UNION {{One("BARO", ListTable(rows)) : rows \in [1..n -> BaroRowSet]} :
              n \in 1..MaxBaroRows}

InitBaro ==
    /\ SHARED_FLIGHT_DATA \in BaroDatasets
    /\ result = NoResult
    /\ NothingInFlight

NextBaro ==
    \/ Call_detect_unusual_altitude_drops
    \/ Call_get_highest_altitude

SpecBaro == InitBaro /\ [][NextBaro]_vars

----------------------------------------------------------------------------
(* Input datasets, GPS family: short GPS series with distinct timestamps   *)
(* in any row order, with or without a FixType column; and longer series   *)
(* of evenly spaced samples for the zero-satellite runs.                   *)

MaxGpsRows == 3

MaxZeroSatRows == 6

GpsTicks == {0, 500, 2000, 4500}

GpsRowSet ==
    [TimeMS : GpsTicks, NSats : {4, 8}]
    \cup [TimeMS : GpsTicks, NSats : {4, 8}, FixType : {1, 3}]

DistinctTimes(rows) ==
    \A i, j \in 1..Len(rows) : i # j => rows[i]["TimeMS"] # rows[j]["TimeMS"]

SameColumns(rows) == \A i, j \in 1..Len(rows) : DOMAIN rows[i] = DOMAIN rows[j]

GpsSeries ==
    UNION {{rows \in [1..n -> GpsRowSet] : DistinctTimes(rows) /\ SameColumns(rows)} :
              n \in 1..MaxGpsRows}

ZeroSatSeries ==
    UNION {{[i \in 1..n |-> [TimeMS |-> 1000 * i, NSats |-> ns[i]]] :
                ns \in [1..n -> {0, 3, 8}]} : n \in 1..MaxZeroSatRows}

GpsDatasets == {One("GPS", ListTable(rows)) : rows \in GpsSeries \cup ZeroSatSeries}

InitGps ==
    /\ SHARED_FLIGHT_DATA \in GpsDatasets
    /\ result = NoResult
    /\ NothingInFlight

NextGps ==
    \/ Call_find_first_gps_loss
    \/ Call_get_gps_degradation_duration
    \/ Call_analyze_gps_health
    \/ Call_get_total_flight_time

SpecGps == InitGps /\ [][NextGps]_vars

----------------------------------------------------------------------------
(* Input datasets, BAT family: short series of battery temperatures (in    *)
(* tenths of a degree), valid and invalid readings mixed, in any order.    *)

MaxBatRows == 5

BatTemps == {-50, 0, 200, 201, 203, 214, 250}

BatDataset(temps) ==
    One("BAT", ListTable([i \in DOMAIN temps |-> [Temp |-> temps[i]]]))

InitBat ==
    /\ \E n \in 1..MaxBatRows : \E temps \in [1..n -> BatTemps] :
          SHARED_FLIGHT_DATA = BatDataset(temps)
    /\ result = NoResult
    /\ NothingInFlight

NextBat ==
    \/ Call_check_battery_temp_stability
    \/ Call_get_max_battery_temperature

SpecBat == InitBat /\ [][NextBat]_vars


----------------------------------------------------------------------------
(* Input datasets, RC family: an EV table and a MODE table, each absent,   *)
(* empty, or a short series with or without a time field, in any order.    *)

MaxRcRows == 2

EvRowSet == [TimeMS : {3000, 63500}, Id : {10, 25}] \cup [Id : {10, 25}]

ModeRowSet == [TimeMS : {7500, 63500}, Mode : {0, 5, 11}] \cup [Mode : {0, 5, 11}]

RcSeries(rowSet) ==
    UNION {{rows \in [1..n -> rowSet] : SameColumns(rows)} : n \in 0..MaxRcRows}

\* the datasets with the given tables, each table present or left out
WithOptional(name1, tables1, name2, tables2) ==
    {Two(name1, t1, name2, t2) : t1 \in tables1, t2 \in tables2}
    \cup {One(name1, t1) : t1 \in tables1}
    \cup {One(name2, t2) : t2 \in tables2}

RcDatasets ==
    WithOptional("EV", {ListTable(rows) : rows \in RcSeries(EvRowSet)},
                 "MODE", {ListTable(rows) : rows \in RcSeries(ModeRowSet)})

InitRc ==
    /\ SHARED_FLIGHT_DATA \in RcDatasets
    /\ result = NoResult
    /\ NothingInFlight

NextRc == Call_check_rc_signal_loss

SpecRc == InitRc /\ [][NextRc]_vars


----------------------------------------------------------------------------
(* Input datasets, ERR family: short series of error rows with distinct    *)
(* timestamps, in any row order.                                           *)

MaxErrRows == 3

ErrTicks == {1000, 2000, 3500, 9000}

\* (Subsys, ECode): EKF and sensor subsystems, set and cleared codes, and
\* codes the lookup tables do not hold
ErrPairs ==
    {<<16, 1>>, <<16, 0>>, <<24, 0>>, <<3, 1>>, <<3, 0>>, <<22, 4>>, <<99, 7>>, <<16, 7>>}

ErrRowSet == {[TimeMS |-> t, Subsys |-> p[1], ECode |-> p[2]] : t \in ErrTicks, p \in ErrPairs}

ErrDataset(rows) == One("ERR", ListTable(rows))

InitErr ==
    /\ \E n \in 1..MaxErrRows : \E rows \in [1..n -> ErrRowSet] :
          /\ DistinctTimes(rows)
          /\ SHARED_FLIGHT_DATA = ErrDataset(rows)
    /\ result = NoResult
    /\ NothingInFlight

NextErr ==
    \/ Call_list_critical_errors
    \/ Call_analyze_ekf_health_status
    \/ Call_detect_sensor_triggered_failsafe

SpecErr == InitErr /\ [][NextErr]_vars


----------------------------------------------------------------------------
(* Input datasets, malformed ERR family: rows in which the timestamp, the  *)
(* subsystem or the code may hold a string that is no number.              *)

MaxMalformedRows == 2

MalformedRowSet ==
    [TimeMS : {1000, 2000, NonNumeric}, Subsys : {16, 3, NonNumeric}, ECode : {1, NonNumeric}]

InitMalformed ==
    /\ \E n \in 1..MaxMalformedRows : \E rows \in [1..n -> MalformedRowSet] :
          SHARED_FLIGHT_DATA = ErrDataset(rows)
    /\ result = NoResult
    /\ NothingInFlight

NextMalformed ==
    \/ Call_list_critical_errors
    \/ Call_analyze_ekf_health_status
    \/ Call_detect_sensor_triggered_failsafe

SpecMalformed == InitMalformed /\ [][NextMalformed]_vars


----------------------------------------------------------------------------
(* Input datasets, correlation family: an ERR and a MODE table, each with  *)
(* its own time field, the mode changes before, at, within, exactly one    *)
(* second after and just over one second after the errors.                 *)

MaxCorrRows == 2

\* milliseconds
CorrErrTimes == {118, 10000}

CorrModeTimes == {1118, 9900, 10000, 10400, 11000, 11001}

CorrTimeFields == {"TimeUS", "TimeMS"}

\* the instant ms in the unit of the field
InField(field, ms) == IF field = "TimeUS" THEN ms * 1000 ELSE ms

CorrErrTable(field, times) ==
    ListTable([i \in DOMAIN times |->
        [c \in {field, "Subsys", "ECode"} |->
            CASE c = "Subsys" -> 16 [] c = "ECode" -> 1 [] OTHER -> InField(field, times[i])]])

CorrModeTable(field, times) ==
    ListTable([i \in DOMAIN times |->
        [c \in {field, "Mode"} |-> IF c = "Mode" THEN 5 ELSE InField(field, times[i])]])

InitCorr ==
    /\ \E fe \in CorrTimeFields, fm \in CorrTimeFields :
       \E ne \in 1..MaxCorrRows, nm \in 1..MaxCorrRows :
       \E et \in [1..ne -> CorrErrTimes], mt \in [1..nm -> CorrModeTimes] :
          SHARED_FLIGHT_DATA = Two("ERR", CorrErrTable(fe, et), "MODE", CorrModeTable(fm, mt))
    /\ result = NoResult
    /\ NothingInFlight

NextCorr == Call_correlate_errors_with_mode_changes

SpecCorr == InitCorr /\ [][NextCorr]_vars


----------------------------------------------------------------------------
(* Input datasets, summary family: each of the six tables absent, quiet or *)
(* eventful, every table timed by TimeMS.                                  *)

TablePresence == {"absent", "quiet", "eventful"}

SummaryDataset(choice) ==
    SomeData([n \in {t \in TableNames : choice[t] # "absent"} |->
                 SchemaTable({"TimeMS"} \cup ValueColumns[n], choice[n] = "eventful")])

InitSummary ==
    /\ \E choice \in [TableNames -> TablePresence] :
          SHARED_FLIGHT_DATA = SummaryDataset(choice)
    /\ result = NoResult
    /\ NothingInFlight

NextSummary == Call_summarize_all_anomalies

SpecSummary == InitSummary /\ [][NextSummary]_vars


----------------------------------------------------------------------------
(* Input datasets, MODE family: short series of mode rows with distinct    *)
(* timestamps in any row order, some rows without a ModeNum, as a list of  *)
(* rows and (complete tables) as a dict of columns.                        *)

MaxModeRows == 3

ModeTicks == {1000, 2000, 3500, 9000}

ModeNums == {0, 5}

ModeChangeRowSet == [TimeMS : ModeTicks, ModeNum : ModeNums] \cup [TimeMS : ModeTicks]

\* the dict-of-columns form of a table whose rows all have the same keys
ColumnsForm(rows) ==
    [dict |-> [c \in DOMAIN rows[1] |-> [i \in DOMAIN rows |-> rows[i][c]]]]

InitMode ==
    /\ \E n \in 1..MaxModeRows : \E rows \in [1..n -> ModeChangeRowSet] :
          /\ DistinctTimes(rows)
          /\ \/ SHARED_FLIGHT_DATA = One("MODE", ListTable(rows))
             \/ /\ SameColumns(rows)
                /\ SHARED_FLIGHT_DATA = One("MODE", ColumnsForm(rows))
    /\ result = NoResult
    /\ NothingInFlight

NextMode == Call_list_mode_changes

SpecMode == InitMode /\ [][NextMode]_vars


----------------------------------------------------------------------------
(* The HTTP server (app.py).  Flask's development server handles each      *)
(* request in a thread of its own, so handlers interleave at their         *)
(* accesses to SHARED_FLIGHT_DATA.  requests is the server's log: one      *)
(* record per request received, in the order of arrival, carrying the body *)
(* request.get_json() gave and the status answered (Pending and InAgent    *)
(* while a chat request is still being handled).                           *)
(*                                                                         *)
(* A JSON body is None (no body, or null), an object (a dataset record),   *)
(* or an array [isNone |-> FALSE, array |-> items].                        *)

MaxRequests == 3

Pending == 0

InAgent == 1

JsonArray(items) == [isNone |-> FALSE, array |-> items]

EmptyObject == SomeData([n \in {} |-> <<>>])

\* a complete log with findings in every table, and a short quiet one
FlightA == SummaryDataset([t \in TableNames |-> "eventful"])

FlightB ==
    SummaryDataset([t \in TableNames |->
                       IF t \in {"BARO", "GPS", "BAT"} THEN "quiet" ELSE "absent"])

SetPayloads == {NoneData, EmptyObject, JsonArray(<<1>>), FlightA, FlightB}

\* a chat body: absent, an object without a message, an object with one
ChatBodies ==
    {NoneData, [isNone |-> FALSE, message |-> ""],
     [isNone |-> FALSE, message |-> "Summarize the flight"]}

\* dict.keys() exists
IsObject(parsed_data) == "tables" \in DOMAIN parsed_data

\* `not parsed_data`: None, {} and [] are falsy
NotData(parsed_data) ==
    \/ parsed_data.isNone
    \/ IsObject(parsed_data) /\ DOMAIN parsed_data.tables = {}
    \/ ~IsObject(parsed_data) /\ parsed_data.array = <<>>

Respond(request) == requests' = Append(requests, request)

\* POST /api/set-flight-data.  The handler touches the shared dataset once,
\* in set_flight_data; parsed_data.keys() of the debug print raises
\* AttributeError for a body that is not an object, which Flask answers 500.
set_data(parsed_data) ==
    /\ Len(requests) < MaxRequests
    /\ IF NotData(parsed_data)
       THEN /\ Respond([route |-> "set-flight-data", body |-> parsed_data, status |-> 400])
            /\ UNCHANGED <<SHARED_FLIGHT_DATA, result>>
       ELSE IF ~IsObject(parsed_data)
       THEN /\ Respond([route |-> "set-flight-data", body |-> parsed_data, status |-> 500])
            /\ UNCHANGED <<SHARED_FLIGHT_DATA, result>>
       ELSE /\ set_flight_data(parsed_data)
            /\ Respond([route |-> "set-flight-data", body |-> parsed_data, status |-> 200])
    /\ UNCHANGED <<agent_state, running>>

\* variant: the handler does not look at the stored dataset
NoDataCached_Never == FALSE

\* `get_flight_data() is None`
NoDataCached == get_flight_data.isNone

\* POST /api/chat up to the call of the agent: the check of the stored
\* dataset, then the body (data.get raises AttributeError on None, outside
\* the try block), then the message
chat_check(data) ==
    /\ Len(requests) < MaxRequests
    /\ Respond([route |-> "chat", body |-> data, invoked |-> FALSE,
                status |-> IF NoDataCached THEN 400
                           ELSE IF data.isNone THEN 500
                           ELSE IF data.message = "" THEN 400
                           ELSE Pending])
    /\ UNCHANGED <<SHARED_FLIGHT_DATA, result, agent_state, running>>

\* agent.invoke(input_state, config) is entered
chat_invoke(i) ==
    /\ requests[i].route = "chat"
    /\ requests[i].status = Pending
    /\ requests' = [requests EXCEPT ![i].status = InAgent, ![i].invoked = TRUE]
    /\ UNCHANGED <<SHARED_FLIGHT_DATA, result, agent_state, running>>

AgentRunning == \E i \in DOMAIN requests : requests[i].status = InAgent

\* a tool invoked by the running agent
chat_tool ==
    /\ AgentRunning
    /\ \/ Call_get_highest_altitude
       \/ Call_get_total_flight_time
       \/ Call_analyze_gps_health

\* agent.invoke returns (200) or raises (500)
chat_respond(i) ==
    /\ requests[i].route = "chat"
    /\ requests[i].status = InAgent
    /\ \E status \in {200, 500} : requests' = [requests EXCEPT ![i].status = status]
    /\ UNCHANGED <<SHARED_FLIGHT_DATA, result, agent_state, running>>

NextServer ==
    \/ \E parsed_data \in SetPayloads : set_data(parsed_data)
    \/ \E data \in ChatBodies : chat_check(data)
    \/ \E i \in DOMAIN requests : chat_invoke(i)
    \/ chat_tool
    \/ \E i \in DOMAIN requests : chat_respond(i)

SpecServer == Init /\ [][NextServer]_vars


----------------------------------------------------------------------------
(* The agent workflow (agent_setup.py).  agent_state holds the messages of *)
(* the session's thread, which the checkpointer keeps from run to run, and *)
(* the node the workflow executes next: START before the first run,        *)
(* "agent" (call_model), "action" (call_tool), END after a run that        *)
(* finished, Aborted after a run that a node ended with an exception.      *)
(* What a later run finds in the checkpoint of an aborted one is decided   *)
(* by the library and not modelled: the thread stops there.                *)

MaxModelSteps == 3

Aborted == "raised"

\* names of the tools the model asks for: two of the registered tools
\* (all_tools, cut down to them) and one name that is not registered
all_tools == {"get_highest_altitude", "get_total_flight_time"}

RequestedTools == all_tools \cup {"get_wind_speed"}

\* the tool calls of one model response, by tool name
ModelResponses ==
    {<<>>} \cup {<<a>> : a \in RequestedTools}
           \cup {<<a, b>> : a \in all_tools, b \in RequestedTools}

HumanMessage == [type |-> "human"]

\* the model's message; every tool call gets an id of its own
AIMessage(names, at) ==
    [type |-> "ai",
     tool_calls |-> [k \in 1..Len(names) |-> [name |-> names[k], id |-> <<at, k>>]]]

ToolMessage(content, tool_call_id) ==
    [type |-> "tool", content |-> content, tool_call_id |-> tool_call_id]

ModelStepsTaken ==
    Cardinality({i \in DOMAIN agent_state.messages : agent_state.messages[i].type = "ai"})

\* tool_to_call.invoke(tool_call["args"])
tool_invoke(name, fd) ==
    IF name = "get_highest_altitude" THEN get_highest_altitude(fd)
    ELSE get_total_flight_time(fd)

\* should_continue: "action" if the last message has tool calls, else "end"
should_continue(messages) ==
    IF messages[Len(messages)].tool_calls # <<>> THEN "action" ELSE "end"

\* the conditional edges of "agent": {"action": "action", "end": END}
RouteOf(branch) == IF branch = "action" THEN "action" ELSE END

\* agent.invoke({"messages": [HumanMessage]}, config): the message is added
\* to the thread and the workflow starts at its entry point
agent_invoke ==
    /\ agent_state.node \in {START, END}
    /\ ModelStepsTaken < MaxModelSteps
    /\ agent_state' = [node |-> "agent",
                       messages |-> agent_state.messages \o <<HumanMessage>>]
    /\ UNCHANGED <<SHARED_FLIGHT_DATA, result, requests, running>>

\* node "agent": call_model appends the model's response, then the
\* conditional edge picks the next node
call_model ==
    /\ agent_state.node = "agent"
    /\ ModelStepsTaken < MaxModelSteps
    /\ \E names \in ModelResponses :
          LET messages == agent_state.messages
                             \o <<AIMessage(names, Len(agent_state.messages) + 1)>>
          IN  agent_state' = [node |-> RouteOf(should_continue(messages)),
                              messages |-> messages]
    /\ UNCHANGED <<SHARED_FLIGHT_DATA, result, requests, running>>

\* the loop of call_tool over the tool calls
ToolOutputs(tool_calls, fd) ==
    [k \in 1..Len(tool_calls) |->
        ToolMessage(tool_invoke(tool_calls[k].name, fd), tool_calls[k].id)]

\* node "action": call_tool answers the tool calls of the last message; the
\* lookup of a name that is not registered raises KeyError, which ends the
\* run.  The edge "action" -> "agent" leads back to the model.
call_tool ==
    /\ agent_state.node = "action"
    /\ LET tool_calls == agent_state.messages[Len(agent_state.messages)].tool_calls
       IN  IF \E k \in 1..Len(tool_calls) : tool_calls[k].name \notin all_tools
           THEN agent_state' = [agent_state EXCEPT !.node = Aborted]
           ELSE agent_state' =
                   [node |-> "agent",
                    messages |-> agent_state.messages
                                    \o ToolOutputs(tool_calls, get_flight_data)]
    /\ UNCHANGED <<SHARED_FLIGHT_DATA, result, requests, running>>

\* the agent is reached only with a dataset stored
InitAgent ==
    /\ SHARED_FLIGHT_DATA \in {FlightA, FlightB}
    /\ result = NoResult
    /\ NothingInFlight

NextAgent ==
    \/ agent_invoke
    \/ call_model
    \/ call_tool

SpecAgent == InitAgent /\ [][NextAgent]_vars


----------------------------------------------------------------------------
(* A composite tool running in one thread while set-flight-data requests   *)
(* are handled in others.  summarize_all_anomalies and analyze_gps_health  *)
(* invoke their sub-tools one after the other, and each sub-tool fetches   *)
(* the dataset with a get_flight_data() call of its own.  running holds    *)
(* the invocation under way: the results of the sub-tools finished so far  *)
(* (parts) and, for the properties, the dataset each read found (read).    *)

\* the sub-tools in the order of their invocation; analyze_gps_health, the
\* second call of the summary, is itself three invocations
SubTools(op) ==
    IF op = "analyze_gps_health"
    THEN <<"find_first_gps_loss", "get_gps_degradation_duration", "analyze_raw_telemetry">>
    ELSE <<"list_critical_errors",
           "find_first_gps_loss", "get_gps_degradation_duration", "analyze_raw_telemetry",
           "check_rc_signal_loss", "analyze_ekf_health_status",
           "detect_unusual_altitude_drops", "check_battery_temp_stability">>

\* sub_tool.invoke({})
SubToolResult(name, fd) ==
    CASE name = "list_critical_errors" -> list_critical_errors(fd)
      [] name = "find_first_gps_loss" -> find_first_gps_loss(fd)
      [] name = "get_gps_degradation_duration" -> get_gps_degradation_duration(fd)
      [] name = "analyze_raw_telemetry" -> analyze_raw_telemetry(fd)
      [] name = "check_rc_signal_loss" -> check_rc_signal_loss(fd)
      [] name = "analyze_ekf_health_status" -> analyze_ekf_health_status(fd)
      [] name = "detect_unusual_altitude_drops" ->
            detect_unusual_altitude_drops(fd, DEFAULT_THRESHOLD_M, DEFAULT_WINDOW_S)
      [] OTHER -> check_battery_temp_stability(fd)

\* the result put together from the sub-results
Assemble(op, parts) ==
    IF op = "analyze_gps_health"
    THEN gps_health_summary(parts[1], parts[2], parts[3])
    ELSE TryExcept(summarize_sections(parts[1],
                                      gps_health_summary(parts[2], parts[3], parts[4]),
                                      parts[5], parts[6], parts[7], parts[8]),
                   "Error while summarizing anomalies",
                   "Error while summarizing anomalies")

\* the tool is entered; the agent calling it runs only after the chat
\* handler has found a dataset stored.  summarize_all_anomalies fetches the
\* dataset for its own check and returns at once when it is empty.
tool_begin(op) ==
    /\ running = NoCall
    /\ ~NoDataCached
    /\ IF op = "summarize_all_anomalies" /\ Falsy(get_flight_data)
       THEN /\ result' = [op |-> op, out |-> summarize_all_anomalies(get_flight_data)]
            /\ UNCHANGED running
       ELSE /\ running' = [op |-> op, parts |-> <<>>,
                           read |-> IF op = "summarize_all_anomalies"
                                    THEN <<get_flight_data>> ELSE <<>>]
            /\ UNCHANGED result
    /\ UNCHANGED <<SHARED_FLIGHT_DATA, requests, agent_state>>

\* the next sub-tool runs: it calls get_flight_data() when it starts
tool_step ==
    /\ running # NoCall
    /\ Len(running.parts) < Len(SubTools(running.op))
    /\ LET fd == get_flight_data
       IN  running' =
             [running EXCEPT
                !.parts = Append(@, SubToolResult(SubTools(running.op)[Len(@) + 1], fd)),
                !.read = Append(@, fd)]
    /\ UNCHANGED <<SHARED_FLIGHT_DATA, result, requests, agent_state>>

\* the tool returns its text
tool_return ==
    /\ running # NoCall
    /\ Len(running.parts) = Len(SubTools(running.op))
    /\ result' = [op |-> running.op, out |-> Assemble(running.op, running.parts)]
    /\ running' = NoCall
    /\ UNCHANGED <<SHARED_FLIGHT_DATA, requests, agent_state>>

NextConcurrent ==
    \/ \E parsed_data \in {FlightA, FlightB} : set_data(parsed_data)
    \/ \E op \in {"summarize_all_anomalies", "analyze_gps_health"} : tool_begin(op)
    \/ tool_step
    \/ tool_return

SpecConcurrent == Init /\ [][NextConcurrent]_vars


----------------------------------------------------------------------------
(* Properties.  The predicates below describe the dataset directly and do  *)
(* not go through the tools' own checks.                                   *)

Loaded == ~SHARED_FLIGHT_DATA.isNone

DatasetAbsentOrEmpty ==
    SHARED_FLIGHT_DATA.isNone \/ DOMAIN SHARED_FLIGHT_DATA.tables = {}

TablePresent(name) == Loaded /\ name \in DOMAIN SHARED_FLIGHT_DATA.tables

RowsOf(name) ==
    IF TablePresent(name) THEN DataFrame(SHARED_FLIGHT_DATA.tables[name]) ELSE <<>>

ColumnsOf(name) == Columns(RowsOf(name))

NonEmpty(name) == RowsOf(name) # <<>>

LacksTime(name) == TablePresent(name) /\ TimeColumns \cap ColumnsOf(name) = {}

Called(op) == result.op = op

Out == result.out

FlightDataMissingKinds ==
    {"Flight data is not available",
     "No flight data loaded. Cannot summarize telemetry",
     "No flight data available",
     "Flight data not found. Please upload a valid log file first"}

SaysFlightDataMissing ==
    IF Called("analyze_gps_health")
    THEN /\ Out.first_loss_summary.kind \in FlightDataMissingKinds
         /\ Out.degradation_duration_summary.kind \in FlightDataMissingKinds
         /\ Out.raw_gps_telemetry_summary.kind \in FlightDataMissingKinds
    ELSE Out.kind \in FlightDataMissingKinds

\* C1 as stated: with no dataset (None) or an empty dataset, every analysis
\* operation returns a result saying that flight data is missing, and none
\* raises.
C1_AsStated ==
    (~Called("none") /\ DatasetAbsentOrEmpty) =>
        (~Raised(Out) /\ SaysFlightDataMissing)

\* C1 amended: with no dataset or an empty dataset no operation raises and
\* each returns a precondition-failure result; it says that flight data is
\* missing for every operation but list_mode_changes, whose result is the
\* "MODE log is missing or empty" message it also gives for a loaded dataset
\* without a MODE table.
C1_MissingDatasetReported ==
    /\ (~Called("none") /\ DatasetAbsentOrEmpty) =>
          /\ ~Raised(Out)
          /\ IF Called("list_mode_changes")
             THEN Out.kind = "MODE log is missing or empty"
             ELSE SaysFlightDataMissing
    /\ (Called("list_mode_changes") /\ ~DatasetAbsentOrEmpty /\ ~TablePresent("MODE")) =>
          Out.kind = "MODE log is missing or empty"

C1_Witness ==
    /\ Loaded
    /\ DOMAIN SHARED_FLIGHT_DATA.tables = {}
    /\ Called("list_mode_changes")
    /\ Out.kind = "MODE log is missing or empty"

----------------------------------------------------------------------------

\* the table or column a classifier requires is absent
RequirementMissing ==
    CASE Called("get_highest_altitude") \/ Called("detect_unusual_altitude_drops") ->
            "Alt" \notin ColumnsOf("BARO")
      [] Called("find_first_gps_loss") ->
            {"NSats", "FixType"} \cap ColumnsOf("GPS") = {}
      [] Called("get_gps_degradation_duration") -> "NSats" \notin ColumnsOf("GPS")
      [] Called("get_total_flight_time") -> ~TablePresent("GPS")
      [] Called("get_max_battery_temperature") \/ Called("check_battery_temp_stability") ->
            "Temp" \notin ColumnsOf("BAT")
      [] Called("check_rc_signal_loss") ->
            IF NonEmpty("EV") THEN "Id" \notin ColumnsOf("EV")
            ELSE "Mode" \notin ColumnsOf("MODE")
      [] Called("list_mode_changes") -> "ModeNum" \notin ColumnsOf("MODE")
      [] Called("list_critical_errors") \/ Called("analyze_ekf_health_status")
         \/ Called("detect_sensor_triggered_failsafe") ->
            ~({"Subsys", "ECode"} \subseteq ColumnsOf("ERR"))
      [] Called("correlate_errors_with_mode_changes") ->
            \/ ~({"Subsys", "ECode"} \subseteq ColumnsOf("ERR"))
            \/ {"Mode", "ModeNum"} \cap ColumnsOf("MODE") = {}
      [] OTHER -> FALSE

NoTimestampKinds ==
    {"No valid timestamp column found in GPS data",
     "No suitable timestamp column found in GPS data",
     "No valid timestamp column found in BARO log",
     "No usable timestamp column found in MODE log",
     "No valid timestamp column found in ERR log",
     "Could not find timestamp column in ERR log",
     "Could not find timestamp column in MODE log"}

\* the results that explain that a table or a column was not found
MissingResultKinds ==
    NoTimestampKinds \cup
    {"BARO log data not found",
     "BARO log does not contain an 'Alt'",
     "Altitude data ('Alt' field) not found in BARO log",
     "No 'GPS' log data found",
     "No 'GPS' data found in the flight log",
     "Neither 'NSats' nor 'FixType' fields found in GPS data",
     "GPS satellite count ('NSats') not available in the log",
     "No 'BAT' (battery) log data found",
     "Battery temperature data ('Temp' field) is not available",
     "The 'EV' log is present, but lacks the 'Id' field",
     "Fallback to MODE log failed: no 'Mode' column present",
     "Neither 'EV' nor 'MODE' logs are available",
     "MODE log is missing or empty",
     "MODE log does not contain a 'ModeNum' field",
     "No 'ERR' (error) messages found in the flight log",
     "No 'ERR' log data found to analyze EKF health status",
     "No ERR logs found. Cannot detect sensor-triggered failsafes",
     "ERR log is empty or malformed",
     "ERR log is missing required fields (Subsys and ECode)",
     "ERR log not found in the data",
     "MODE log not found in the data",
     "MODE log is missing required fields (Mode or ModeNum)",
     "Error: Missing expected column in BARO data",
     "Error: Missing expected column in GPS data",
     "Error: Missing expected column in BAT data",
     "Error: Missing expected column in EV data",
     "Error: Missing expected column in MODE data",
     "Error: Missing expected column in ERR data",
     "Error: Missing expected column in ERR data for EKF analysis"}

\* the results a classifier gives for a flight with nothing to report
CleanResultKinds ==
    {"GPS signal remained strong throughout the flight",
     "GPS signal remained strong throughout the flight (NSats)",
     "'EV' log is present, and no RC signal loss (EV.Id = 10) was detected",
     "No 'EV' log found, and no common RC failsafe modes were detected; RC signal loss is unlikely",
     "No unusual altitude drops were detected",
     "The battery temperature remained relatively constant",
     "No flight mode changes were detected",
     "The 'ERR' log is present, but no critical errors were recorded",
     "The 'ERR' log is present, but no distinct critical errors were recorded",
     "No EKF-related errors (Subsystem 16 or 24) found",
     "No sensor-triggered failsafes occurred during the flight",
     "No mode changes were detected within 1 second of error events"}

\* C2: when a table or column a classifier requires is absent from a
\* non-empty dataset, the classifier does not raise and returns an
\* explanatory "not found / missing" result, never the result it gives for
\* a clean flight.
C2_MissingColumnExplained ==
    (~Called("none") /\ ~DatasetAbsentOrEmpty /\ RequirementMissing) =>
        /\ ~Raised(Out)
        /\ Out.kind \in MissingResultKinds
        /\ Out.kind \notin CleanResultKinds

----------------------------------------------------------------------------

\* the time-dependent classifier that was called consumes a table that
\* carries none of the three time fields (and carries the value columns the
\* classifier asks for before it looks for a time field)
ConsumesUntimedTable ==
    CASE Called("get_highest_altitude") \/ Called("detect_unusual_altitude_drops") ->
            "Alt" \in ColumnsOf("BARO") /\ LacksTime("BARO")
      [] Called("find_first_gps_loss") -> LacksTime("GPS")
      [] Called("get_gps_degradation_duration") ->
            "NSats" \in ColumnsOf("GPS") /\ LacksTime("GPS")
      [] Called("get_total_flight_time") -> NonEmpty("GPS") /\ LacksTime("GPS")
      [] Called("check_rc_signal_loss") ->
            IF NonEmpty("EV") THEN "Id" \in ColumnsOf("EV") /\ LacksTime("EV")
            ELSE "Mode" \in ColumnsOf("MODE") /\ LacksTime("MODE")
      [] Called("list_mode_changes") ->
            "ModeNum" \in ColumnsOf("MODE") /\ LacksTime("MODE")
      [] Called("list_critical_errors") -> ColumnsOf("ERR") # {} /\ LacksTime("ERR")
      [] Called("analyze_ekf_health_status") -> NonEmpty("ERR") /\ LacksTime("ERR")
      [] Called("detect_sensor_triggered_failsafe") ->
            {"Subsys", "ECode"} \subseteq ColumnsOf("ERR") /\ LacksTime("ERR")
      [] Called("correlate_errors_with_mode_changes") ->
            /\ {"Subsys", "ECode"} \subseteq ColumnsOf("ERR")
            /\ \/ LacksTime("ERR")
               \/ {"Mode", "ModeNum"} \cap ColumnsOf("MODE") # {} /\ LacksTime("MODE")
      [] OTHER -> FALSE

\* C3 as stated: for a table without any of the three time fields every
\* time-dependent classifier that consumes it returns the "no timestamp"
\* result, not an exception and not a finding.
C3_AsStated ==
    ConsumesUntimedTable => (~Raised(Out) /\ Out.kind \in NoTimestampKinds)

SensorRowReported(row) ==
    row["Subsys"] \in {3, 5, 6, 8, 22} /\ row["ECode"] \in {1, 3, 4}

\* C3 amended: for a table without any of the three time fields no
\* time-dependent classifier raises; first GPS loss, GPS degradation
\* duration, total flight time, altitude drops, mode changes, critical
\* errors, EKF health and the error/mode correlation return the "no
\* timestamp" result, while highest altitude, RC signal loss and the
\* sensor-triggered failsafe still return their finding (or their clean
\* result), marked as having no timestamp.
C3_UntimedTableHandled ==
    ConsumesUntimedTable =>
        /\ ~Raised(Out)
        /\ CASE Called("get_highest_altitude") ->
                  Out.kind = "The highest altitude reached was (timestamp not available)"
             [] Called("check_rc_signal_loss") /\ NonEmpty("EV") ->
                  Out.kind = IF (\E n_ \in DOMAIN RowsOf("EV") : RowsOf("EV")[n_]["Id"] = 10)
                             THEN "RC signal loss detected (EV.Id = 10), but no timestamp could be accurately determined"
                             ELSE "'EV' log is present, and no RC signal loss (EV.Id = 10) was detected"
             [] Called("check_rc_signal_loss") /\ ~NonEmpty("EV") ->
                  Out.kind = IF (\E n_ \in DOMAIN RowsOf("MODE") : RowsOf("MODE")[n_]["Mode"] \in {5, 6, 9, 11})
                             THEN "No 'EV' log found, and possible RC failsafe inferred from mode change, but no timestamp could be accurately determined"
                             ELSE "No 'EV' log found, and no common RC failsafe modes were detected; RC signal loss is unlikely"
             [] Called("detect_sensor_triggered_failsafe") ->
                  IF (\E n_ \in DOMAIN RowsOf("ERR") : SensorRowReported(RowsOf("ERR")[n_]))
                  THEN /\ Out.kind = "sensor-triggered failsafes"
                       /\ \A k \in 1..Len(Out.messages) :
                              Out.messages[k].time_str = [unknown_time |-> TRUE]
                  ELSE Out.kind = "No sensor-triggered failsafes occurred during the flight"
             [] OTHER -> Out.kind \in NoTimestampKinds

C3_Witness ==
    /\ Called("get_highest_altitude")
    /\ ConsumesUntimedTable
    /\ Out.kind = "The highest altitude reached was (timestamp not available)"

----------------------------------------------------------------------------

\* the normalized time of a row under the Time Normalizer's choice
NormalizedTimes(name) ==
    LET tc == _get_time_column_and_divisor(ColumnsOf(name))
    IN  {ToSeconds(RowsOf(name)[i][tc.col], tc.divisor) : i \in 1..Len(RowsOf(name))}

\* C4: for every subset of {TimeUS, time_boot_ms, TimeMS} the Time
\* Normalizer returns the first present field in priority order
\* (microsecond field first) with its divisor, and "no time field" iff none
\* is present; and every classifier that normalizes time, the correlator's
\* inline selection included, uses the same field and divisor for the same
\* table: the times the correlator reports are the Time Normalizer's.
C4_OneTimeFieldPerTable ==
    /\ \A cols \in SUBSET TimeColumns :
          LET tc == _get_time_column_and_divisor(cols)
          IN  /\ (tc.col = NoTimeCol) <=> (cols = {})
              /\ cols # {} => tc.col \in cols
              /\ "TimeUS" \in cols => tc.col = "TimeUS"
              /\ tc.col = "TimeUS" => tc.divisor = 1000000
              /\ tc.col \in {"time_boot_ms", "TimeMS"} => tc.divisor = 1000
    /\ (Called("correlate_errors_with_mode_changes") /\ "results" \in DOMAIN Out) =>
          \A k \in 1..Len(Out.results) :
              /\ Out.results[k].t_err \in NormalizedTimes("ERR")
              /\ Out.results[k].t_mode \in NormalizedTimes("MODE")

----------------------------------------------------------------------------
(* Altitude drops *)

\* normalized time (microseconds) of row i of a table, by the Time Normalizer
TimeOf(name, i) ==
    LET tc == _get_time_column_and_divisor(ColumnsOf(name))
    IN  ToSeconds(RowsOf(name)[i][tc.col], tc.divisor)

DropEntries == IF "drops" \in DOMAIN Out THEN Out.drops ELSE <<>>

DropsAnalysed ==
    /\ Called("detect_unusual_altitude_drops")
    /\ Out.kind \in {"Unusual altitude drops detected",
                     "No unusual altitude drops were detected"}

\* C5: every reported drop has a magnitude (anchor altitude minus a lower
\* altitude of the series) of at least threshold_m and an elapsed time that
\* is greater than 0 and at most window_s.
C5_DropsRespectThresholdAndWindow ==
    DropsAnalysed =>
        \A k \in 1..Len(DropEntries) :
            LET e == DropEntries[k]
                baro == RowsOf("BARO")
            IN  /\ e.delta_alt >= result.threshold_m
                /\ e.delta_t > 0
                /\ e.delta_t <= result.window_s * 1000000
                /\ \E a, b \in 1..Len(baro) :
                      /\ e.delta_alt = baro[a]["Alt"] - baro[b]["Alt"]
                      /\ e.delta_t = TimeOf("BARO", b) - TimeOf("BARO", a)
                      /\ e.start = _format_time_string(TimeOf("BARO", a))

C5_Witness ==
    /\ DropsAnalysed
    /\ \E k \in 1..Len(DropEntries) :
          /\ DropEntries[k].delta_alt = result.threshold_m
          /\ DropEntries[k].delta_t = result.window_s * 1000000

\* the BARO series ordered by normalized time
SortedBaro ==
    SortValues([i \in 1..Len(RowsOf("BARO")) |->
                   [Alt |-> RowsOf("BARO")[i]["Alt"], TimeSec |-> TimeOf("BARO", i)]],
               "TimeSec")

\* the later rows of the sorted series df within window_s of row i that lie
\* lower than row i
LaterLower(df, i) ==
    {j \in 1..Len(df) :
        /\ df[j]["TimeSec"] > df[i]["TimeSec"]
        /\ df[j]["TimeSec"] <= df[i]["TimeSec"] + result.window_s * 1000000
        /\ df[j]["Alt"] < df[i]["Alt"]}

WindowMinimum(df, i) ==
    CHOOSE m \in {df[j]["Alt"] : j \in LaterLower(df, i)} :
        \A j \in LaterLower(df, i) : m <= df[j]["Alt"]

Qualifies(df, i) ==
    /\ LaterLower(df, i) # {}
    /\ df[i]["Alt"] - WindowMinimum(df, i) >= result.threshold_m

----------------------------------------------------------------------------
(* GPS degradation *)

DurationAnalysed ==
    /\ Called("get_gps_degradation_duration")
    /\ Out.kind = "GPS signal was degraded (NSats < 6) for approximately"

GpsTimes == {TimeOf("GPS", i) : i \in 1..Len(RowsOf("GPS"))}

\* the sample taken at time x has fewer than 6 satellites
LowSatsAt(x) ==
    \E i \in 1..Len(RowsOf("GPS")) :
        TimeOf("GPS", i) = x /\ RowsOf("GPS")[i]["NSats"] < 6

\* rows of the time-sorted series that are degraded for the duration analysis
DegradedRows(t) == {i \in 1..Len(t) : LowSatsAt(t[i])}

TimeSorted(t) ==
    /\ Len(t) = Len(RowsOf("GPS"))
    /\ {t[i] : i \in 1..Len(t)} = GpsTimes
    /\ \A i, j \in 1..Len(t) : i < j => t[i] <= t[j]

\* C7: every degraded row of the time-sorted series lies in exactly one
\* segment, the segments are the maximal runs of consecutive degraded rows,
\* and the summed segment durations do not exceed the span of the series.
C7_SegmentsPartitionDegradedRows ==
    DurationAnalysed =>
        LET t   == Out.time_seconds
            seg == Out.segments
            n   == Len(t)
            D   == DegradedRows(t)
        IN  /\ TimeSorted(t)
            /\ \A i \in D :
                  Cardinality({k \in 1..Len(seg) :
                                  seg[k].start_index <= i /\ i <= seg[k].end_index}) = 1
            /\ \A k \in 1..Len(seg) :
                  /\ seg[k].start_index <= seg[k].end_index
                  /\ \A i \in seg[k].start_index..seg[k].end_index : i \in D
                  /\ (seg[k].start_index - 1) \notin D
                  /\ (seg[k].end_index + 1) \notin D
            /\ Out.degraded_segments_duration2
                  = SeqSum([k \in 1..Len(seg) |-> seg[k].dur2])
            /\ Out.degraded_segments_duration2 <= 2 * (t[n] - t[1])

\* two segments that together fill the whole span
C7_Witness ==
    /\ DurationAnalysed
    /\ Len(Out.segments) = 2
    /\ Len(Out.time_seconds) = 3
    /\ Out.degraded_segments_duration2 = 2 * (Out.time_seconds[3] - Out.time_seconds[1])

\* C8: a run of two or more rows lasts from its first to its last row; a
\* single-row run with both neighbours lasts half the sum of the gaps to the
\* previous and to the next sample; a single-row run at the start or the end
\* lasts the one adjacent gap; the only row of a one-row table lasts zero;
\* the reported total is the sum.  (dur2 is twice the duration.)
C8_SegmentDurationRule ==
    DurationAnalysed =>
        LET t   == Out.time_seconds
            seg == Out.segments
            n   == Len(t)
        IN  /\ \A k \in 1..Len(seg) :
                  LET s == seg[k].start_index
                      e == seg[k].end_index
                  IN  seg[k].dur2 =
                        IF s < e THEN 2 * (t[e] - t[s])
                        ELSE IF n = 1 THEN 0
                        ELSE IF s = 1 THEN 2 * (t[2] - t[1])
                        ELSE IF s = n THEN 2 * (t[n] - t[n - 1])
                        ELSE (t[s] - t[s - 1]) + (t[s + 1] - t[s])
            /\ Out.degraded_segments_duration2
                  = SeqSum([k \in 1..Len(seg) |-> seg[k].dur2])
            /\ Out.duration = _format_time_string(Out.degraded_segments_duration2 \div 2)

\* a single degraded row between two good ones, with unequal gaps
C8_Witness ==
    /\ DurationAnalysed
    /\ \E k \in 1..Len(Out.segments) :
          LET s == Out.segments[k].start_index
              t == Out.time_seconds
          IN  /\ s = Out.segments[k].end_index
              /\ 1 < s /\ s < Len(t)
              /\ t[s] - t[s - 1] # t[s + 1] - t[s]
              /\ 2 * Out.segments[k].dur2 # 4 * (t[s + 1] - t[s])

HealthAnalysed ==
    /\ Called("analyze_gps_health")
    /\ "NSats" \in ColumnsOf("GPS")
    /\ ~LacksTime("GPS")

FirstLossReported(r) == r.kind = "GPS signal degradation was first observed"

DurationReported(r) == r.kind = "GPS signal was degraded (NSats < 6) for approximately"

\* C9 as stated: the first-occurrence report and the degraded duration use
\* the same predicate (NSats < 6 OR FixType < 2), so a flight has a first
\* degradation event iff the duration analysis counts degraded rows.
C9_AsStated ==
    HealthAnalysed =>
        (FirstLossReported(Out.first_loss_summary)
            <=> DurationReported(Out.degradation_duration_summary))

LowSats(row) == row["NSats"] < 6

BadFix(row) == "FixType" \in DOMAIN row /\ row["FixType"] < 2

\* C9 amended: find_first_gps_loss counts a row as degraded when NSats < 6
\* OR FixType < 2 (over the fields present); get_gps_degradation_duration
\* counts only the rows with NSats < 6 and ignores FixType.  A flight whose
\* duration analysis counts degraded rows has a first degradation event,
\* but not conversely.
C9_DurationCountsLowSatsOnly ==
    HealthAnalysed =>
        /\ FirstLossReported(Out.first_loss_summary)
              <=> (\E n_ \in DOMAIN RowsOf("GPS") : LowSats(RowsOf("GPS")[n_]) \/ BadFix(RowsOf("GPS")[n_]))
        /\ DurationReported(Out.degradation_duration_summary)
              <=> (\E n_ \in DOMAIN RowsOf("GPS") : LowSats(RowsOf("GPS")[n_]))
        /\ DurationReported(Out.degradation_duration_summary)
              => FirstLossReported(Out.first_loss_summary)

\* a poor fix with enough satellites: a first event, and no degraded time
C9_Witness ==
    /\ HealthAnalysed
    /\ (\E n_ \in DOMAIN RowsOf("GPS") : BadFix(RowsOf("GPS")[n_]))
    /\ ~(\E n_ \in DOMAIN RowsOf("GPS") : LowSats(RowsOf("GPS")[n_]))
    /\ FirstLossReported(Out.first_loss_summary)
    /\ Out.degradation_duration_summary.kind
          = "GPS signal remained strong throughout the flight (NSats)"

FirstLossAnalysed ==
    /\ Called("find_first_gps_loss")
    /\ "NSats" \in ColumnsOf("GPS")
    /\ ~LacksTime("GPS")

\* five consecutive samples, in the order of the log, with no satellites
ZeroSatRun ==
    \E i \in 1..Len(RowsOf("GPS")) :
        /\ i + 4 <= Len(RowsOf("GPS"))
        /\ \A k \in i..(i + 4) : RowsOf("GPS")[k]["NSats"] = 0

FirstDegradedRow ==
    CHOOSE i \in 1..Len(RowsOf("GPS")) :
        /\ LowSats(RowsOf("GPS")[i]) \/ BadFix(RowsOf("GPS")[i])
        /\ \A j \in 1..(i - 1) : ~(LowSats(RowsOf("GPS")[j]) \/ BadFix(RowsOf("GPS")[j]))

\* C10: on a GPS series with a time field and NSats, find_first_gps_loss
\* adds the zero-satellite warning iff the series has a run of at least 5
\* consecutive samples with NSats = 0; the warning comes on top of the
\* first-degradation finding, which still names the first degraded sample.
C10_ZeroSatWarning ==
    FirstLossAnalysed =>
        /\ (FirstLossReported(Out) /\ Out.warning) <=> ZeroSatRun
        /\ ZeroSatRun =>
              /\ FirstLossReported(Out)
              /\ Out.time = _format_time_string(TimeOf("GPS", FirstDegradedRow))
              /\ Out.total_zero_sat_time_points
                    = Cardinality({i \in 1..Len(RowsOf("GPS")) :
                                      RowsOf("GPS")[i]["NSats"] = 0})

\* the flight degrades first (3 satellites) and then loses all satellites
C10_Witness ==
    /\ FirstLossAnalysed
    /\ ZeroSatRun
    /\ RowsOf("GPS")[1]["NSats"] = 3
    /\ Out.warning
    /\ Out.time = _format_time_string(TimeOf("GPS", 1))

----------------------------------------------------------------------------
(* Battery temperature *)

\* the readings above zero, as a set of row numbers of the BAT table
ValidReadings == {i \in DOMAIN RowsOf("BAT") : RowsOf("BAT")[i]["Temp"] > 0}

ReadingAt(i) == RowsOf("BAT")[i]["Temp"]

HighestReading ==
    CHOOSE m \in {ReadingAt(i) : i \in ValidReadings} :
        \A i \in ValidReadings : ReadingAt(i) <= m

LowestReading ==
    CHOOSE m \in {ReadingAt(i) : i \in ValidReadings} :
        \A i \in ValidReadings : m <= ReadingAt(i)

RECURSIVE SumOver(_, _)
SumOver(S, power) ==
    IF S = {} THEN 0
    ELSE LET i == CHOOSE x \in S : TRUE
         IN  (IF power = 2 THEN ReadingAt(i) * ReadingAt(i) ELSE ReadingAt(i))
             + SumOver(S \ {i}, power)

\* standard deviation of the valid readings below 0.75 degrees: a single
\* reading has no dispersion; two or more are measured by the sample
\* variance, (n * sum(x^2) - sum(x)^2) / (n * (n - 1)) < 0.5625
DeviationBelowLimit ==
    LET n == Cardinality(ValidReadings)
    IN  \/ n = 1
        \/ 16 * (n * SumOver(ValidReadings, 2)
                 - SumOver(ValidReadings, 1) * SumOver(ValidReadings, 1))
               < 900 * n * (n - 1)

\* C11: readings <= 0 are left out of all statistics; over the remaining
\* valid readings (at least one) check_battery_temp_stability answers
\* 'stable' iff range < 1.5 and standard deviation < 0.75, and
\* 'fluctuated' otherwise; get_max_battery_temperature reports the maximum
\* of the same valid readings.
C11_StableIffSmallRangeAndDeviation ==
    /\ (Called("check_battery_temp_stability") /\ ValidReadings # {}) =>
          /\ Out.kind \in {"The battery temperature remained relatively constant",
                           "The battery temperature fluctuated"}
          /\ Out.temp_range = HighestReading - LowestReading
          /\ (Out.kind = "The battery temperature remained relatively constant")
                <=> (HighestReading - LowestReading < 15 /\ DeviationBelowLimit)
    /\ (Called("get_max_battery_temperature") /\ ValidReadings # {}) =>
          /\ Out.kind = "The maximum valid battery temperature recorded was"
          /\ Out.max_temp = HighestReading

\* the same statement for series with two or more valid readings
C11_TwoOrMoreReadings ==
    Cardinality(ValidReadings) # 1 => C11_StableIffSmallRangeAndDeviation


----------------------------------------------------------------------------
(* RC signal loss *)

RcChecked == Called("check_rc_signal_loss")

\* rows of the EV table that record an RC failsafe, in row order
FailsafeEventRows == {i \in DOMAIN RowsOf("EV") : RowsOf("EV")[i]["Id"] = 10}

\* rows of the MODE table in one of the failsafe modes, in row order
FailsafeModeRows == {i \in DOMAIN RowsOf("MODE") : RowsOf("MODE")[i]["Mode"] \in {5, 6, 9, 11}}

First(S) == CHOOSE i \in S : \A j \in S : i <= j

DirectKinds ==
    {"RC signal loss detected! The first RC Failsafe (EV.Id = 10) occurred at",
     "RC signal loss detected (EV.Id = 10), but no timestamp could be accurately determined"}

InferredKinds ==
    {"No 'EV' log found. However, based on 'MODE' changes an RC failsafe is suspected around; this is an inference",
     "No 'EV' log found, and possible RC failsafe inferred from mode change, but no timestamp could be accurately determined"}

\* the time, floored to minutes and seconds, of a row given in milliseconds
FlooredClock(ms) == [mm |-> ms \div 60000, ss |-> (ms % 60000) \div 1000]

ClockOf(formatted) == [mm |-> formatted.mm, ss |-> formatted.ss]

\* C12: whenever the EV table has a row with Id = 10 the result is a direct
\* detection, timed (floored to mm:ss) at the first such row when the table
\* carries a time field; with no EV table (or an empty one) and a MODE row
\* in a mode of {5, 6, 9, 11} the result is a detection timed at the first
\* such row and labelled as an inference; a result from the MODE fallback
\* is never labelled direct.
C12_DirectAndInferredDetections ==
    RcChecked =>
        /\ FailsafeEventRows # {} =>
              /\ Out.kind \in DirectKinds
              /\ ~LacksTime("EV") =>
                    /\ "time" \in DOMAIN Out
                    /\ ClockOf(Out.time)
                          = FlooredClock(RowsOf("EV")[First(FailsafeEventRows)]["TimeMS"])
        /\ (~NonEmpty("EV") /\ FailsafeModeRows # {}) =>
              /\ Out.kind \in InferredKinds
              /\ ~LacksTime("MODE") =>
                    /\ "time" \in DOMAIN Out
                    /\ ClockOf(Out.time)
                          = FlooredClock(RowsOf("MODE")[First(FailsafeModeRows)]["TimeMS"])
        /\ Out.kind \in DirectKinds => FailsafeEventRows # {}
        /\ Out.kind \in InferredKinds => (~NonEmpty("EV") /\ FailsafeModeRows # {})
        /\ DirectKinds \cap InferredKinds = {}

\* 3.0 s gives 00:03 for the direct detection
C12_Witness ==
    /\ RcChecked
    /\ TablePresent("MODE") /\ FailsafeModeRows # {}
    /\ Cardinality(FailsafeEventRows) = 1
    /\ First(FailsafeEventRows) = 2
    /\ Out.kind = "RC signal loss detected! The first RC Failsafe (EV.Id = 10) occurred at"
    /\ ClockOf(Out.time) = [mm |-> 0, ss |-> 3]

\* 7.5 s gives 00:07 for the inferred detection
C12_WitnessInferred ==
    /\ RcChecked
    /\ ~TablePresent("EV")
    /\ Out.kind \in InferredKinds
    /\ "time" \in DOMAIN Out /\ ClockOf(Out.time) = [mm |-> 0, ss |-> 7]

\* C13: the MODE-based inference is attempted not only when the EV table is
\* absent or empty but also when the EV table is present and has no row
\* with Id = 10: a MODE row in a failsafe mode {5, 6, 9, 11} then still
\* yields an inferred RC-loss result.
C13_FallbackWhenEvHasNoFailsafe ==
    (RcChecked /\ "Id" \in ColumnsOf("EV") /\ FailsafeEventRows = {}
       /\ FailsafeModeRows # {}) =>
        Out.kind \in InferredKinds


----------------------------------------------------------------------------
(* Critical errors *)

ErrPair(i) == <<RowsOf("ERR")[i]["Subsys"], RowsOf("ERR")[i]["ECode"]>>

\* the rows whose (subsystem, code) pair no earlier row has
FirstOccurrences ==
    {i \in DOMAIN RowsOf("ERR") : \A j \in 1..(i - 1) : ErrPair(j) # ErrPair(i)}

\* the k-th smallest element of a set of row numbers
RECURSIVE Nth(_, _)
Nth(S, k) == IF k = 1 THEN First(S) ELSE Nth(S \ {First(S)}, k - 1)

\* the rows with a copy of row i put in after position p
WithCopy(rows, i, p) ==
    [k \in 1..(Len(rows) + 1) |->
        IF k <= p THEN rows[k] ELSE IF k = p + 1 THEN rows[i] ELSE rows[k - 1]]

\* the name a code is shown with: the mapped name, or the fallback text
\* together with the number
SubsystemShown(code) ==
    IF code \in 1..31 THEN [name |-> ARDUPILOT_SUBSYSTEM_MAP[code]]
    ELSE [name |-> "Unknown Subsystem", value |-> code]

CodeShown(code) ==
    IF code \in 0..2 THEN [name |-> ERROR_CODE_DESCRIPTIONS[code]]
    ELSE [name |-> "Code", value |-> code]

CriticalErrorsListed ==
    /\ Called("list_critical_errors")
    /\ Out.kind = "Critical Errors Detected in Flight Log"

\* C14: list_critical_errors gives exactly one entry per distinct
\* (subsystem, code) pair of the ERR rows, that of the pair's first
\* occurrence in row order; a repeated pair adds nothing however far apart
\* in time, rows differing in either component stay apart, and duplicating
\* a row of the input (the copy placed anywhere after the row it copies)
\* leaves the output unchanged.
C14_OneEntryPerDistinctPair ==
    Called("list_critical_errors") =>
        /\ CriticalErrorsListed
        /\ Len(Out.output_lines) = Cardinality(FirstOccurrences)
        /\ \A k \in 1..Len(Out.output_lines) :
              LET i == Nth(FirstOccurrences, k)
              IN  /\ Out.output_lines[k].timestamp = _format_time_string(TimeOf("ERR", i))
                  /\ Out.output_lines[k].subsys = SubsystemShown(ErrPair(i)[1])
                  /\ Out.output_lines[k].ecode = CodeShown(ErrPair(i)[2])
        /\ \A i \in DOMAIN RowsOf("ERR") : \A p \in i..Len(RowsOf("ERR")) :
              list_critical_errors(One("ERR", ListTable(WithCopy(RowsOf("ERR"), i, p)))) = Out

\* the first pair comes back 8 seconds later, after a row that shares its
\* subsystem and differs in the code
C14_Witness ==
    /\ CriticalErrorsListed
    /\ Len(RowsOf("ERR")) = 3
    /\ ErrPair(1) = ErrPair(3)
    /\ ErrPair(2)[1] = ErrPair(1)[1] /\ ErrPair(2)[2] # ErrPair(1)[2]
    /\ RowsOf("ERR")[1]["TimeMS"] = 1000 /\ RowsOf("ERR")[3]["TimeMS"] = 9000
    /\ Len(Out.output_lines) = 2


----------------------------------------------------------------------------
(* Malformed rows *)

WellFormedRow(row) ==
    \A c \in DOMAIN row : Coercible(row[c])

\* the rows of a sequence that satisfy a mask, in order
RECURSIVE Kept(_, _)
Kept(rows, mask) ==
    IF rows = <<>> THEN <<>>
    ELSE (IF Head(mask) THEN <<Head(rows)>> ELSE <<>>) \o Kept(Tail(rows), Tail(mask))

WellFormedRows ==
    Kept(RowsOf("ERR"), [i \in DOMAIN RowsOf("ERR") |-> WellFormedRow(RowsOf("ERR")[i])])

ErrorResultKinds ==
    {"Error: Missing expected column in ERR data",
     "An unexpected error occurred while processing 'ERR' log",
     "Error: Missing expected column in ERR data for EKF analysis",
     "An unexpected error occurred while analyzing EKF health",
     "Internal error while detecting sensor failsafes"}

ErrClassifierOf(op, fd) ==
    CASE op = "list_critical_errors" -> list_critical_errors(fd)
      [] op = "analyze_ekf_health_status" -> analyze_ekf_health_status(fd)
      [] OTHER -> detect_sensor_triggered_failsafe(fd)

ErrClassifierCalled ==
    result.op \in {"list_critical_errors", "analyze_ekf_health_status",
                   "detect_sensor_triggered_failsafe"}

\* C15: in list_critical_errors, analyze_ekf_health_status and
\* detect_sensor_triggered_failsafe a row whose subsystem, code or timestamp
\* is present but is no number is skipped: the result is never an error
\* result, and when well-formed rows remain it is the result for those rows
\* alone.
C15_MalformedRowsSkipped ==
    ErrClassifierCalled =>
        /\ Out.kind \notin ErrorResultKinds
        /\ WellFormedRows # <<>> =>
              Out = ErrClassifierOf(result.op, One("ERR", ListTable(WellFormedRows)))


----------------------------------------------------------------------------
(* Codes outside the lookup tables *)

EkfRowNumbers == {i \in DOMAIN RowsOf("ERR") : RowsOf("ERR")[i]["Subsys"] \in {16, 24}}

SensorRowNumbers ==
    {i \in DOMAIN RowsOf("ERR") : /\ RowsOf("ERR")[i]["Subsys"] \in {3, 5, 6, 8, 22}
                                  /\ RowsOf("ERR")[i]["ECode"] \in {1, 3, 4}}

\* the row of S with exactly k - 1 rows of S before it in time
KthInTime(S, k) ==
    CHOOSE i \in S :
        Cardinality({j \in S : TimeOf("ERR", j) < TimeOf("ERR", i)}) = k - 1

SensorSubsystemShown(code) ==
    IF code \in {0, 3, 5, 6, 8, 22, 24, 28} THEN [name |-> SUBSYSTEM_MAP[code]]
    ELSE [name |-> "Subsystem", value |-> code]

SensorCodeShown(code) ==
    IF code \in 0..4 THEN [name |-> ERROR_CODE_MAP[code]]
    ELSE [name |-> "Code", value |-> code]

\* C16: whatever integer subsystem and status codes an ERR row holds, each
\* classifier that resolves codes renders every row it selects with the
\* mapped name or with the fallback text and the number itself; a row with
\* a code outside the tables is not dropped from the rendering and the
\* result is never an error result.
C16_UnmappedCodesRendered ==
    /\ ErrClassifierCalled => Out.kind \notin ErrorResultKinds
    /\ Called("list_critical_errors") =>
          /\ CriticalErrorsListed
          /\ \A i \in DOMAIN RowsOf("ERR") :
                \E k \in 1..Len(Out.output_lines) :
                    /\ Out.output_lines[k].subsys = SubsystemShown(ErrPair(i)[1])
                    /\ Out.output_lines[k].ecode = CodeShown(ErrPair(i)[2])
    /\ (Called("analyze_ekf_health_status") /\ EkfRowNumbers # {}) =>
          /\ "all_ekf_events" \in DOMAIN Out
          /\ Len(Out.all_ekf_events) = Cardinality(EkfRowNumbers)
          /\ \A k \in 1..Len(Out.all_ekf_events) :
                LET i == KthInTime(EkfRowNumbers, k)
                IN  /\ Out.all_ekf_events[k].subsys = SubsystemShown(ErrPair(i)[1])
                    /\ Out.all_ekf_events[k].ecode = CodeShown(ErrPair(i)[2])
    /\ (Called("detect_sensor_triggered_failsafe") /\ SensorRowNumbers # {}) =>
          /\ Out.kind = "sensor-triggered failsafes"
          /\ Len(Out.messages) = Cardinality(SensorRowNumbers)
          /\ \A k \in 1..Len(Out.messages) :
                LET i == Nth(SensorRowNumbers, k)
                IN  /\ Out.messages[k].subsystem = SensorSubsystemShown(ErrPair(i)[1])
                    /\ Out.messages[k].code = SensorCodeShown(ErrPair(i)[2])

\* an EKF row with code 7, which ERROR_CODE_DESCRIPTIONS does not hold, is
\* rendered next to a row with a mapped code
C16_Witness ==
    /\ Called("analyze_ekf_health_status")
    /\ "all_ekf_events" \in DOMAIN Out
    /\ \E k \in 1..Len(Out.all_ekf_events) :
          Out.all_ekf_events[k].ecode = [name |-> "Code", value |-> 7]
    /\ \E k \in 1..Len(Out.all_ekf_events) :
          Out.all_ekf_events[k].ecode = [name |-> "Set (error occurred)"]


----------------------------------------------------------------------------
(* EKF error period *)

EarliestOf(S) == CHOOSE i \in S : \A j \in S : TimeOf("ERR", i) <= TimeOf("ERR", j)

EkfSetRows == {i \in EkfRowNumbers : RowsOf("ERR")[i]["ECode"] = 1}

\* the cleared rows later than the earliest set row
EkfClearedAfterStart ==
    {i \in EkfRowNumbers : /\ RowsOf("ERR")[i]["ECode"] = 0
                           /\ TimeOf("ERR", i) > TimeOf("ERR", EarliestOf(EkfSetRows))}

EkfAnalysed == Called("analyze_ekf_health_status")

\* C17: analyze_ekf_health_status looks at the ERR rows of subsystem 16 or
\* 24 in time order.  The period starts at the first of them with code 1 and
\* ends at the first with code 0 after the start (a code 0 before any code 1
\* is ignored); one start and one end are reported at most, the duration is
\* end minus start and is not negative; a start without a later code 0 is
\* reported as an open error with no duration.
C17_FirstErrorPeriod ==
    EkfAnalysed =>
        IF EkfRowNumbers = {}
        THEN Out.kind = "No EKF-related errors (Subsystem 16 or 24) found"
        ELSE IF EkfSetRows = {}
        THEN /\ Out.kind = "No clear EKF error start or recovery events were found"
             /\ DOMAIN Out \cap {"start", "end", "duration"} = {}
        ELSE IF EkfClearedAfterStart = {}
        THEN /\ Out.kind = "EKF entered an error state, but no recovery event was logged"
             /\ Out.start = _format_time_string(TimeOf("ERR", EarliestOf(EkfSetRows)))
             /\ DOMAIN Out \cap {"end", "duration"} = {}
        ELSE /\ Out.kind = "EKF entered an error state and recovered"
             /\ Out.start = _format_time_string(TimeOf("ERR", EarliestOf(EkfSetRows)))
             /\ Out.end = _format_time_string(TimeOf("ERR", EarliestOf(EkfClearedAfterStart)))
             /\ Out.duration = TimeOf("ERR", EarliestOf(EkfClearedAfterStart))
                               - TimeOf("ERR", EarliestOf(EkfSetRows))
             /\ Out.duration >= 0

\* rows out of time order, a cleared row of subsystem 16 before the start
\* and a cleared row of subsystem 24 after it: the period runs from 2.0 s to
\* 3.5 s
C17_Witness ==
    /\ EkfAnalysed
    /\ RowsOf("ERR") = << [TimeMS |-> 3500, Subsys |-> 24, ECode |-> 0],
                          [TimeMS |-> 1000, Subsys |-> 16, ECode |-> 0],
                          [TimeMS |-> 2000, Subsys |-> 16, ECode |-> 1] >>
    /\ Out.kind = "EKF entered an error state and recovered"
    /\ Out.duration = 1500000


----------------------------------------------------------------------------
(* Sensor-triggered failsafes *)

SensorChecked == Called("detect_sensor_triggered_failsafe")

\* f"{int(minutes)}:{seconds:.2f}" of a time in milliseconds, the seconds in
\* hundredths
MinutesAndSeconds(ms) == [minutes |-> ms \div 60000, seconds |-> (ms % 60000) \div 10]

\* C18: detect_sensor_triggered_failsafe reports exactly the ERR rows whose
\* subsystem is one of 3, 5, 6, 8, 22 and whose code is one of 1, 3, 4: one
\* line per such row, in row order, repeats included, each with the resolved
\* names and the row's timestamp; and it answers that no sensor-triggered
\* failsafe occurred exactly when no row passes both filters.
C18_ExactlyTheSensorFailsafeRows ==
    SensorChecked =>
        /\ Out.kind = "No sensor-triggered failsafes occurred during the flight"
              <=> SensorRowNumbers = {}
        /\ SensorRowNumbers # {} =>
              /\ Out.kind = "sensor-triggered failsafes"
              /\ Len(Out.messages) = Cardinality(SensorRowNumbers)
              /\ \A k \in 1..Len(Out.messages) :
                    LET row == RowsOf("ERR")[Nth(SensorRowNumbers, k)]
                    IN  /\ Out.messages[k].subsystem = [name |-> SUBSYSTEM_MAP[row["Subsys"]]]
                        /\ Out.messages[k].code = [name |-> ERROR_CODE_MAP[row["ECode"]]]
                        /\ Out.messages[k].time_str = MinutesAndSeconds(row["TimeMS"])

\* the same compass error twice, the later one first, around a row of a
\* subsystem outside the sensor set: two lines, in row order
C18_Witness ==
    /\ SensorChecked
    /\ RowsOf("ERR") = << [TimeMS |-> 9000, Subsys |-> 3, ECode |-> 1],
                          [TimeMS |-> 2000, Subsys |-> 16, ECode |-> 1],
                          [TimeMS |-> 1000, Subsys |-> 3, ECode |-> 1] >>
    /\ Len(Out.messages) = 2
    /\ Out.messages[1].time_str = [minutes |-> 0, seconds |-> 900]


----------------------------------------------------------------------------
(* Errors followed by mode changes *)

Correlated == Called("correlate_errors_with_mode_changes")

\* the (error row, mode row) pairs with the mode change in the closed second
\* after the error
FollowedWithinOneSecond ==
    {p \in (DOMAIN RowsOf("ERR")) \X (DOMAIN RowsOf("MODE")) :
        /\ TimeOf("MODE", p[2]) >= TimeOf("ERR", p[1])
        /\ TimeOf("MODE", p[2]) <= TimeOf("ERR", p[1]) + UsPerSecond}

CorrelationEntries == IF "results" \in DOMAIN Out THEN Out.results ELSE <<>>

EntryOf(p) ==
    [t_err |-> TimeOf("ERR", p[1]), t_mode |-> TimeOf("MODE", p[2]),
     delta |-> TimeOf("MODE", p[2]) - TimeOf("ERR", p[1])]

EntryTimes(e) == [t_err |-> e.t_err, t_mode |-> e.t_mode, delta |-> e.delta]

\* C19: correlate_errors_with_mode_changes reports the pair (error, mode
\* change) exactly when the time of the mode change, each table normalised
\* by its own time field, lies in the closed interval from the time of the
\* error to one second after it; the delta of an entry is the mode time
\* minus the error time and lies between 0 and 1 second; a mode change
\* before the error is never reported, and the window is one second, not
\* CORRELATION_WINDOW_SECONDS.
C19_ClosedOneSecondWindow ==
    Correlated =>
        /\ Len(CorrelationEntries) = Cardinality(FollowedWithinOneSecond)
        /\ \A p \in FollowedWithinOneSecond :
              \E k \in 1..Len(CorrelationEntries) : EntryTimes(CorrelationEntries[k]) = EntryOf(p)
        /\ \A k \in 1..Len(CorrelationEntries) :
              /\ \E p \in FollowedWithinOneSecond : EntryTimes(CorrelationEntries[k]) = EntryOf(p)
              /\ CorrelationEntries[k].delta \in 0..UsPerSecond
        /\ Out.kind = "No mode changes were detected within 1 second of error events"
              <=> FollowedWithinOneSecond = {}


----------------------------------------------------------------------------
(* Summary of a flight without findings *)

Summarised == Called("summarize_all_anomalies")

\* every classifier the summary invokes answers with its no-finding result
AllClassifiersClean ==
    /\ ~Falsy(SHARED_FLIGHT_DATA)
    /\ list_critical_errors(SHARED_FLIGHT_DATA).kind \in
          {"No 'ERR' (error) messages found in the flight log",
           "The 'ERR' log is present, but no critical errors were recorded",
           "The 'ERR' log is present, but no distinct critical errors were recorded"}
    /\ find_first_gps_loss(SHARED_FLIGHT_DATA).kind =
          "GPS signal remained strong throughout the flight"
    /\ get_gps_degradation_duration(SHARED_FLIGHT_DATA).kind =
          "GPS signal remained strong throughout the flight (NSats)"
    /\ check_rc_signal_loss(SHARED_FLIGHT_DATA).kind \in
          {"'EV' log is present, and no RC signal loss (EV.Id = 10) was detected",
           "No 'EV' log found, and no common RC failsafe modes were detected; RC signal loss is unlikely"}
    /\ analyze_ekf_health_status(SHARED_FLIGHT_DATA).kind \in
          {"No 'ERR' log data found to analyze EKF health status",
           "No EKF-related errors (Subsystem 16 or 24) found"}
    /\ detect_unusual_altitude_drops(SHARED_FLIGHT_DATA, DEFAULT_THRESHOLD_M,
                                     DEFAULT_WINDOW_S).kind =
          "No unusual altitude drops were detected"
    /\ check_battery_temp_stability(SHARED_FLIGHT_DATA).kind =
          "The battery temperature remained relatively constant"

\* C20: on a loaded dataset for which every classifier reports no finding,
\* summarize_all_anomalies returns the single result that no significant
\* anomalies were detected, and no section.
C20_CleanFlightHasNoSections ==
    (Summarised /\ AllClassifiersClean) =>
        /\ Out.kind = "No significant anomalies were detected in the flight logs"
        /\ "summaries" \notin DOMAIN Out


----------------------------------------------------------------------------
(* Order of the sections of a summary *)

Sections == IF "summaries" \in DOMAIN Out THEN Out.summaries ELSE <<>>

\* position of the classifier behind a section in the order of the calls
SectionRank(tag) ==
    CASE tag = "Critical Errors (Subsystem Faults)" -> 1
      [] tag = "GPS Signal Anomalies" -> 2
      [] tag \in {"RC Signal Loss", "RC Signal Check"} -> 3
      [] tag = "EKF Health Warnings" -> 4
      [] tag = "Altitude Drop Detected" -> 5
      [] tag = "Battery Temperature" -> 6
      [] OTHER -> 0

\* the result of the classifier with the given position, on the stored dataset
ClassifierResult(rank) ==
    CASE rank = 1 -> list_critical_errors(SHARED_FLIGHT_DATA)
      [] rank = 2 -> analyze_gps_health(SHARED_FLIGHT_DATA)
      [] rank = 3 -> check_rc_signal_loss(SHARED_FLIGHT_DATA)
      [] rank = 4 -> analyze_ekf_health_status(SHARED_FLIGHT_DATA)
      [] rank = 5 -> detect_unusual_altitude_drops(SHARED_FLIGHT_DATA, DEFAULT_THRESHOLD_M,
                                                    DEFAULT_WINDOW_S)
      [] OTHER -> check_battery_temp_stability(SHARED_FLIGHT_DATA)

\* C21: summarize_all_anomalies runs critical errors, GPS health, RC loss,
\* EKF health, altitude drops and battery stability in this order, each
\* once: whichever sections a report has, they stand in this order, none
\* twice, each holding the result of its classifier.
C21_SectionsInCallOrder ==
    Summarised =>
        /\ \A k \in 1..Len(Sections) : SectionRank(Sections[k].tag) \in 1..6
        /\ \A k \in 1..Len(Sections) : \A l \in (k + 1)..Len(Sections) :
              SectionRank(Sections[k].tag) < SectionRank(Sections[l].tag)
        /\ \A k \in 1..Len(Sections) :
              Sections[k].body = ClassifierResult(SectionRank(Sections[k].tag))

\* a report with all six sections
C21_Witness ==
    /\ Summarised
    /\ Len(Sections) = 6
    /\ Sections[1].tag = "Critical Errors (Subsystem Faults)"
    /\ Sections[6].tag = "Battery Temperature"


----------------------------------------------------------------------------
(* The analyses leave the dataset alone *)

\* what the analysis named in a call record returns for a dataset
ToolResultOf(call, fd) ==
    CASE call.op = "get_highest_altitude" -> get_highest_altitude(fd)
      [] call.op = "find_first_gps_loss" -> find_first_gps_loss(fd)
      [] call.op = "get_gps_degradation_duration" -> get_gps_degradation_duration(fd)
      [] call.op = "get_max_battery_temperature" -> get_max_battery_temperature(fd)
      [] call.op = "get_total_flight_time" -> get_total_flight_time(fd)
      [] call.op = "check_rc_signal_loss" -> check_rc_signal_loss(fd)
      [] call.op = "detect_unusual_altitude_drops" ->
            detect_unusual_altitude_drops(fd, call.threshold_m, call.window_s)
      [] call.op = "analyze_raw_telemetry" -> analyze_raw_telemetry(fd)
      [] call.op = "check_battery_temp_stability" -> check_battery_temp_stability(fd)
      [] call.op = "list_mode_changes" -> list_mode_changes(fd)
      [] call.op = "list_critical_errors" -> list_critical_errors(fd)
      [] call.op = "analyze_gps_health" -> analyze_gps_health(fd)
      [] call.op = "correlate_errors_with_mode_changes" ->
            correlate_errors_with_mode_changes(fd)
      [] call.op = "detect_sensor_triggered_failsafe" ->
            detect_sensor_triggered_failsafe(fd)
      [] call.op = "analyze_ekf_health_status" -> analyze_ekf_health_status(fd)
      [] OTHER -> summarize_all_anomalies(fd)

----------------------------------------------------------------------------
(* Order of the input rows *)

\* the rows of a table in the order of their timestamps (all distinct)
InTimeOrder(name) ==
    [k \in DOMAIN RowsOf(name) |->
        RowsOf(name)[CHOOSE i \in DOMAIN RowsOf(name) :
            Cardinality({j \in DOMAIN RowsOf(name) : TimeOf(name, j) < TimeOf(name, i)})
                = k - 1]]

TimesDistinct(name) ==
    \A i, j \in DOMAIN RowsOf(name) : i # j => TimeOf(name, i) # TimeOf(name, j)

\* C23: the classifiers with first-occurrence, run or window logic order the
\* rows by time first, so the result for a table is the result for its rows
\* in time order, whatever order they arrive in: for the GPS degradation
\* duration and equally for the first degradation and the zero-satellite
\* runs of find_first_gps_loss.
C23_RowOrderIrrelevant ==
    ((Called("find_first_gps_loss") \/ Called("get_gps_degradation_duration"))
        /\ TimesDistinct("GPS")) =>
        Out = ToolResultOf(result, One("GPS", ListTable(InTimeOrder("GPS"))))


----------------------------------------------------------------------------
(* One event, one section *)

\* the body of the section with the given tag, as a sequence of none or one
SectionBodies(tag) ==
    [k \in 1..Cardinality({j \in 1..Len(Sections) : Sections[j].tag = tag}) |->
        Sections[CHOOSE j \in 1..Len(Sections) : Sections[j].tag = tag].body]

\* ERR row i is described in the listing of critical errors
InCriticalErrorSection(i) ==
    \E s \in 1..Len(SectionBodies("Critical Errors (Subsystem Faults)")) :
        LET body == SectionBodies("Critical Errors (Subsystem Faults)")[s]
        IN  /\ "output_lines" \in DOMAIN body
            /\ \E k \in 1..Len(body.output_lines) :
                  /\ body.output_lines[k].timestamp = _format_time_string(TimeOf("ERR", i))
                  /\ body.output_lines[k].subsys = SubsystemShown(ErrPair(i)[1])
                  /\ body.output_lines[k].ecode = CodeShown(ErrPair(i)[2])

\* ERR row i is described among the events of the EKF section
InEkfSection(i) ==
    \E s \in 1..Len(SectionBodies("EKF Health Warnings")) :
        LET body == SectionBodies("EKF Health Warnings")[s]
        IN  /\ "all_ekf_events" \in DOMAIN body
            /\ \E k \in 1..Len(body.all_ekf_events) :
                  /\ body.all_ekf_events[k].time = _format_time_string(TimeOf("ERR", i))
                  /\ body.all_ekf_events[k].subsys = SubsystemShown(ErrPair(i)[1])
                  /\ body.all_ekf_events[k].ecode = CodeShown(ErrPair(i)[2])

\* C24: in a summarize_all_anomalies report a logged event is described in
\* one section at most: an ERR row of subsystem 16 or 24, which the listing
\* of critical errors and the EKF analysis both read, does not appear in
\* both sections.
C24_EventInOneSectionAtMost ==
    (Summarised /\ TablePresent("ERR")) =>
        \A i \in DOMAIN RowsOf("ERR") : ~(InCriticalErrorSection(i) /\ InEkfSection(i))


----------------------------------------------------------------------------
(* Mode changes *)

ModesListed == Called("list_mode_changes")

\* the MODE rows that have a ModeNum, in time order
ModeRowsInTime ==
    LET rows == InTimeOrder("MODE")
    IN  Kept(rows, [i \in DOMAIN rows |-> "ModeNum" \in DOMAIN rows[i]])

\* the positions of ModeRowsInTime at which the mode is new
ChangePositions(rows) ==
    {k \in DOMAIN rows : k = 1 \/ rows[k]["ModeNum"] # rows[k - 1]["ModeNum"]}

ModeEntries == IF "mode_changes" \in DOMAIN Out THEN Out.mode_changes ELSE <<>>

\* C25: list_mode_changes orders the MODE rows by time, skips the rows
\* without ModeNum, and lists the first remaining row and every later row
\* whose ModeNum differs from the entry listed before it, nothing else:
\* consecutive entries differ in ModeNum, an unchanged mode is not listed
\* again, and the list-of-rows and dict-of-columns forms of a table give
\* the same result.
C25_OneEntryPerModeChange ==
    (ModesListed /\ "ModeNum" \in ColumnsOf("MODE")) =>
        LET rows == ModeRowsInTime
        IN  /\ Out.kind = "Flight Mode Changes Detected"
            /\ Len(ModeEntries) = Cardinality(ChangePositions(rows))
            /\ \A k \in 1..Len(ModeEntries) :
                  LET row == rows[Nth(ChangePositions(rows), k)]
                  IN  /\ ModeEntries[k].mode_num = row["ModeNum"]
                      /\ ModeEntries[k].timestamp =
                            _format_time_string(row["TimeMS"] * 1000)
            /\ \A k \in 1..(Len(ModeEntries) - 1) :
                  ModeEntries[k].mode_num # ModeEntries[k + 1].mode_num
            /\ Out = list_mode_changes(One("MODE", ListTable(RowsOf("MODE"))))

\* a dict-of-columns table, rows out of time order: mode 0, then 5 twice in
\* time order, two entries
C25_Witness ==
    /\ ModesListed
    /\ IsDict(SHARED_FLIGHT_DATA.tables["MODE"])
    /\ RowsOf("MODE") = << [TimeMS |-> 9000, ModeNum |-> 5],
                           [TimeMS |-> 1000, ModeNum |-> 0],
                           [TimeMS |-> 2000, ModeNum |-> 5] >>
    /\ Len(ModeEntries) = 2
    /\ ModeEntries[2].timestamp = _format_time_string(2000000)


----------------------------------------------------------------------------
(* Labels of the sections of a summary *)

HasSection(tag) == \E j \in 1..Len(Sections) : Sections[j].tag = tag

\* check_rc_signal_loss found a failsafe event or inferred one from the modes
RcLossDetectedOrInferred ==
    check_rc_signal_loss(SHARED_FLIGHT_DATA).kind \in
      {"RC signal loss detected! The first RC Failsafe (EV.Id = 10) occurred at",
       "RC signal loss detected (EV.Id = 10), but no timestamp could be accurately determined",
       "No 'EV' log found. However, based on 'MODE' changes an RC failsafe is suspected around; this is an inference",
       "No 'EV' log found, and possible RC failsafe inferred from mode change, but no timestamp could be accurately determined"}

\* analyze_ekf_health_status found an EKF error period
EkfFindingReported ==
    analyze_ekf_health_status(SHARED_FLIGHT_DATA).kind \in
      {"EKF entered an error state and recovered",
       "EKF entered an error state, but no recovery event was logged"}

AltitudeDropReported ==
    detect_unusual_altitude_drops(SHARED_FLIGHT_DATA, DEFAULT_THRESHOLD_M,
                                  DEFAULT_WINDOW_S).kind = "Unusual altitude drops detected"

BatteryFindingReported ==
    check_battery_temp_stability(SHARED_FLIGHT_DATA).kind \in
      {"The battery temperature fluctuated",
       "All battery temperature values are zero or invalid"}

CriticalErrorReported ==
    list_critical_errors(SHARED_FLIGHT_DATA).kind = "Critical Errors Detected in Flight Log"

\* C30: in a report of summarize_all_anomalies the RC section is tagged
\* 'RC Signal Loss' exactly when check_rc_signal_loss detected or inferred a
\* loss and 'RC Signal Check' otherwise, and the sections 'EKF Health
\* Warnings', 'Altitude Drop Detected', 'Battery Temperature' and 'Critical
\* Errors' are present exactly when their classifier reported a finding.
C30_CleanResultsNotLabelledAnomalies ==
    (Summarised /\ Out.kind = "report") =>
        /\ HasSection("RC Signal Loss") <=> RcLossDetectedOrInferred
        /\ HasSection("RC Signal Check") <=> ~RcLossDetectedOrInferred
        /\ HasSection("EKF Health Warnings") <=> EkfFindingReported
        /\ HasSection("Altitude Drop Detected") <=> AltitudeDropReported
        /\ HasSection("Battery Temperature") <=> BatteryFindingReported
        /\ HasSection("Critical Errors (Subsystem Faults)") <=> CriticalErrorReported

----------------------------------------------------------------------------
(* The stored dataset after a sequence of requests *)

IsSetRequest(j) == requests[j].route = "set-flight-data"

\* the body is None, {} or []
EmptyPayload(j) ==
    \/ requests[j].body = NoneData
    \/ requests[j].body = EmptyObject
    \/ requests[j].body = JsonArray(<<>>)

ObjectPayload(j) == requests[j].body \in {FlightA, FlightB}

\* the body of the latest of the requests J, None if there is none
LatestBody(J) ==
    IF J = {} THEN NoneData
    ELSE requests[CHOOSE j \in J : \A k \in J : k <= j].body

\* C26 as stated: the stored dataset is the payload of the most recent
\* set-flight-data request with a non-empty payload (None if there was
\* none), and a request with no or an empty payload is answered 400.
C26_AsStated ==
    /\ SHARED_FLIGHT_DATA =
          LatestBody({j \in DOMAIN requests : IsSetRequest(j) /\ ~EmptyPayload(j)})
    /\ \A j \in DOMAIN requests :
          (IsSetRequest(j) /\ EmptyPayload(j)) => requests[j].status = 400

\* C26, amended: the stored dataset is, as a whole, the payload of the most
\* recent set-flight-data request whose payload was a non-empty JSON object,
\* and None if there was none; such a request is answered 200, a request
\* with no or an empty payload 400 and a request with a non-empty payload
\* that is not an object 500, the last two leaving the dataset as it was.
C26_LatestObjectPayloadStored ==
    /\ SHARED_FLIGHT_DATA =
          LatestBody({j \in DOMAIN requests : IsSetRequest(j) /\ ObjectPayload(j)})
    /\ \A j \in DOMAIN requests :
          IsSetRequest(j) =>
              requests[j].status = IF EmptyPayload(j) THEN 400
                                   ELSE IF ObjectPayload(j) THEN 200
                                   ELSE 500

\* two datasets were stored one after the other, then an empty request came
C26_Witness ==
    /\ Len(requests) = 3
    /\ \A j \in 1..3 : IsSetRequest(j)
    /\ requests[1].body = FlightA
    /\ requests[2].body = FlightB
    /\ EmptyPayload(3)
    /\ requests[3].status = 400
    /\ SHARED_FLIGHT_DATA = FlightB

----------------------------------------------------------------------------
(* Chat requests and the stored dataset *)

IsChatRequest(i) == requests[i].route = "chat"

\* a set-flight-data request that arrived before request i stored a dataset
StoredBefore(i) ==
    \E j \in 1..(i - 1) : IsSetRequest(j) /\ requests[j].status = 200

ChatGuarded ==
    \A i \in DOMAIN requests :
        IsChatRequest(i) =>
            /\ requests[i].invoked => StoredBefore(i)
            /\ ~StoredBefore(i) => (requests[i].status = 400 /\ ~requests[i].invoked)

\* the step is the handling of a set-flight-data request
SetRequestStep ==
    /\ Len(requests') = Len(requests) + 1
    /\ requests'[Len(requests')].route = "set-flight-data"

\* C27: in every interleaving of requests the agent is invoked for a chat
\* request only after an earlier set-flight-data request has stored a
\* dataset, a chat request arriving while none is stored is answered 400
\* without the agent, and no step of a chat request (its checks, the agent's
\* tool calls, its answer 200, 400 or 500) changes the stored dataset.
C27_ChatNeedsDatasetAndKeepsIt ==
    /\ []ChatGuarded
    /\ [][~SetRequestStep => SHARED_FLIGHT_DATA' = SHARED_FLIGHT_DATA]_vars

\* a chat was refused for want of a dataset, one was stored, and the next
\* chat reached the agent, which ran a tool and failed: the dataset is
\* still the one stored
C27_Witness ==
    /\ Len(requests) = 3
    /\ IsChatRequest(1) /\ requests[1].status = 400 /\ ~requests[1].invoked
    /\ IsSetRequest(2) /\ requests[2].status = 200
    /\ IsChatRequest(3) /\ requests[3].status = 500 /\ requests[3].invoked
    /\ result.op = "analyze_gps_health"
    /\ SHARED_FLIGHT_DATA = requests[2].body

----------------------------------------------------------------------------
(* Steps of the agent workflow *)

Thread == agent_state.messages

LastCalls == Thread[Len(Thread)].tool_calls

\* the step is taken by the node named
StepOf(node) == agent_state.node = node /\ agent_state' # agent_state

\* the thread grows by exactly the messages given
Appends(messages) == agent_state'.messages = Thread \o messages

RunOver(node) == node \notin {"agent", "action"}

\* C28: a model step appends the model's message and hands control to the
\* tool step exactly when that message has tool calls, and ends the run
\* otherwise; a tool step appends one ToolMessage per tool call of the last
\* message, in the order of the calls and with their tool_call_id, and
\* hands control back to the model; a run ends only from a model step.
C28_ToolCallsAnsweredBeforeModel ==
    [][/\ StepOf("agent") =>
             LET new == agent_state'.messages[Len(agent_state'.messages)]
             IN  /\ Len(agent_state'.messages) = Len(Thread) + 1
                 /\ new.type = "ai"
                 /\ agent_state'.node =
                       IF new.tool_calls # <<>> THEN "action" ELSE END
       /\ StepOf("action") =>
             /\ \E contents \in [1..Len(LastCalls) -> {r.content : r \in
                                    {agent_state'.messages[i] :
                                        i \in Len(Thread) + 1..Len(agent_state'.messages)}}] :
                   Appends([k \in 1..Len(LastCalls) |->
                               ToolMessage(contents[k], LastCalls[k].id)])
             /\ agent_state'.node = "agent"
       /\ (RunOver(agent_state'.node) /\ ~RunOver(agent_state.node)) =>
             agent_state.node = "agent"]_vars

----------------------------------------------------------------------------
(* One report, one dataset *)

\* the running tool returns in this step
ToolReturns == running # NoCall /\ running' = NoCall

\* C29: every report of summarize_all_anomalies, and every result of
\* analyze_gps_health, is what the tool gives for one dataset, one of those
\* stored while the call was running: no result mixes findings from two
\* datasets, even when a set-flight-data request replaces the stored
\* dataset during the call.
C29_ReportFromOneDataset ==
    [][ToolReturns =>
          \E k \in DOMAIN running.read :
              result'.out = ToolResultOf(running, running.read[k])]_vars

=============================================================================
